---------------------------- MODULE Spec2Model ----------------------------
(***************************************************************************)
(* HID report descriptor parser (src/src/hid_report_desc.cpp):             *)
(* report_descriptor_tree::parse, the tokenizer parse_item, the Report-ID  *)
(* index and the annotated renderer report_descriptor_tree::to_string.     *)
(*                                                                         *)
(* Pointers into the descriptor are byte offsets: p = 0 is bytes.data(),   *)
(* end = Len(bytes).  uint8_t and uint16_t values are naturals below 2^8   *)
(* and 2^16, signed values are integers in their two's-complement range,   *)
(* and a uint32_t is the pair <<hi, lo>> of its 16-bit halves, so that all *)
(* 2^32 values are represented with their wrap-around.                     *)
(***************************************************************************)
EXTENDS Integers, Sequences, FiniteSets, TLC

VARIABLES
    bytes,      \* std::span<const uint8_t> bytes / source_bytes_
    pc,         \* control point of parse / to_string
    p,          \* const uint8_t* p of parse, as an offset
    it,         \* item it: the item parse_item returned last
    g,          \* global_state g
    gstack,     \* std::stack<global_state> gstack (top is the last element)
    l,          \* local_state l
    nodes,      \* the collection nodes owned by the tree, in creation order; nodes[1] is *root_
    stack,      \* std::stack<collection_node*> stack (top is the last element)
    current,    \* collection_node* current
    index,      \* index_by_report_id_: report id -> sequence of field pointers
    f,          \* report_field f under construction (Input/Output/Feature case)
    u,          \* loop variable of the usage range expansion
    rp,         \* const uint8_t* p of to_string, as an offset
    depth,      \* int depth of to_string
    rpage,      \* uint16_t usage_page of to_string
    out,        \* the lines to_string has written
    items,      \* history: the items tokenized by parse so far, with their byte spans
    reads,      \* history: the offsets of bytes dereferenced so far
    glog,       \* history: global state and global stack depth after each item of parse
    emitted,    \* history: the fields emitted so far, in order of emission
    found,      \* the vector the latest find_by_report_id returned to the caller,
                \* NoResult once the caller has gone on to another operation
    fd,         \* int fd of every hidraw::device object (-1: not open)
    live,       \* the hidraw::device objects within their lifetime
    oscalls,    \* history: the system calls issued through device objects
    ops,        \* history: the device member functions called and how each ended
    args,       \* main: argc and argv
    cpc,        \* main: the statement control is at
    exc,        \* main: the exception in flight (NoExc: none)
    stdout,     \* main: the lines printed
    exit,       \* main: the value returned (-1: not returned yet)
    env         \* history: what the device did for main ("open failed", ...)

vars == <<bytes, pc, p, it, g, gstack, l, nodes, stack, current, index, f, u,
          rp, depth, rpage, out, items, reads, glog, emitted, found,
          fd, live, oscalls, ops, args, cpc, exc, stdout, exit, env>>

parseVars == <<p, it, g, gstack, l, nodes, stack, current, index, f, u,
               items, glog, emitted>>

renderVars == <<rp, depth, rpage, out>>

\* the variables of the descriptor parser, renderer and index
hidVars == <<bytes, pc, parseVars, reads, renderVars, found>>

\* the variables of the device objects
devVars == <<fd, live, oscalls, ops>>

-----------------------------------------------------------------------------
(* Bounds of the model *)

\* longest descriptor drawn as a free sequence over TokenBytes
MaxBytes == 4

\* most items in a descriptor drawn as a free sequence over one group of EvalItems
MaxItems == 4

\* number of elements a usages vector can hold before its allocation fails
MemLimit == 4

-----------------------------------------------------------------------------
(* Integer widths *)

\* (int8_t)v and (int16_t)v of an integer v
I8(v)  == (((v % 256) + 128) % 256) - 128
I16(v) == (((v % 65536) + 32768) % 65536) - 32768

\* uint32_t 0
W0 == <<0, 0>>

\* (uint8_t)w, (uint16_t)w and (int32_t)w of a uint32_t w
Lo8(w)  == w[2] % 256
Lo16(w) == w[2]
I32(w)  == IF w[1] >= 32768 THEN (w[1] - 65536) * 65536 + w[2] ELSE w[1] * 65536 + w[2]

\* a <= b on uint32_t
ULe(a, b) == a[1] < b[1] \/ (a[1] = b[1] /\ a[2] <= b[2])

\* w + 1 on uint32_t, wrapping at 2^32
UInc(w) ==
    IF w[2] < 65535 THEN <<w[1], w[2] + 1>>
    ELSE IF w[1] < 65535 THEN <<w[1] + 1, 0>>
    ELSE W0

\* v | ((uint32_t)b << (8 * i)) while bits 8i .. 8i+7 of v are clear (the
\* mutant before it shifts as if the word had 16 bits)
OrByteLowHalf(v, b, i) == <<v[1], v[2] + b * (256 ^ (i % 2))>>
OrByte(v, b, i) ==
    IF i < 2 THEN <<v[1], v[2] + b * (256 ^ i)>> ELSE <<v[1] + b * (256 ^ (i - 2)), v[2]>>

Min(a, b) == IF a < b THEN a ELSE b

Last(s) == s[Len(s)]

-----------------------------------------------------------------------------
(* The tokenizer *)

\* item{}: the value-initialised item
NoItem == [size |-> 0, type |-> 0, tag |-> 0, data |-> W0]

\* *p for the byte at offset off; a dereference at or beyond the end of the
\* span is recorded by the caller in the set of offsets read
Deref(B, off) == IF off < Len(B) THEN B[off + 1] ELSE 0

is_long_item(prefix) == prefix = \hFE

\* "p >= end" guarding every dereference
AtEndOffByOne(q, end) == q > end
AtEnd(q, end) == q >= end

\* "p + 2 > end": the long item's size and tag bytes are not both there
LongHeaderCut(q, end) == q + 2 > end

\* "p = std::min(p + data_size, end)"
SkipLongDataUnclamped(q, dataSize, end) == q + dataSize
\* SkipLongData that leaves the payload to be tokenized as items
SkipLongDataNoSkip(q, dataSize, end) == q
SkipLongData(q, dataSize, end) == Min(q + dataSize, end)

\* the loop "for (i = 0; i < it.size; ++i) { if (p >= end) break; v |= *p++ << 8*i; }"
\* from iteration i on; yields the data word, the cursor and the offsets read
\* (the mutant before it takes the first byte as the most significant one)
RECURSIVE ReadDataBigEndian(_, _, _, _, _, _, _)
ReadDataBigEndian(B, q, end, i, size, v, rd) ==
    IF i < size /\ ~AtEnd(q, end)
    THEN ReadDataBigEndian(B, q + 1, end, i + 1, size,
                           OrByte(v, Deref(B, q), size - 1 - i), rd \cup {q})
    ELSE [data |-> v, p |-> q, reads |-> rd]
RECURSIVE ReadData(_, _, _, _, _, _, _)
ReadData(B, q, end, i, size, v, rd) ==
    IF i < size /\ ~AtEnd(q, end)
    THEN ReadData(B, q + 1, end, i + 1, size,
                  OrByte(v, Deref(B, q), i), rd \cup {q})
    ELSE [data |-> v, p |-> q, reads |-> rd]

\* parse_item(p, end) on the span B: the item, the advanced cursor and the offsets read
parse_item(B, q, end) ==
    IF AtEnd(q, end)
    THEN [it |-> NoItem, p |-> q, reads |-> {}]
    ELSE LET prefix == Deref(B, q)
             q1 == q + 1
         IN  IF is_long_item(prefix)
             THEN IF LongHeaderCut(q1, end)
                  THEN [it |-> NoItem, p |-> q1, reads |-> {q}]
                  ELSE LET data_size == Deref(B, q1)
                       IN  [it |-> [size |-> \hFF, type |-> 3, tag |-> \hFF, data |-> W0],
                            p |-> SkipLongData(q1 + 2, data_size, end),
                            reads |-> {q, q1, q1 + 1}]
             ELSE LET bSizeCode == prefix % 4
                      size == IF bSizeCode = 3 THEN 4 ELSE bSizeCode
                      r == ReadData(B, q1, end, 0, size, W0, {q})
                  IN  [it |-> [size |-> size,
                               type |-> (prefix \div 4) % 4,
                               tag |-> (prefix \div 16) % 16,
                               data |-> r.data],
                       p |-> r.p, reads |-> r.reads]

\* int32_t sign_extend(uint32_t v, uint8_t size)
\* sign_extend without the narrowing casts: every width is taken as 32 bits
sign_extend_as_int32(v, size) == I32(v)
sign_extend(v, size) ==
    CASE size = 1 -> I8(Lo8(v))
      [] size = 2 -> I16(Lo16(v))
      [] size = 4 -> I32(v)
      [] OTHER -> I32(v)


-----------------------------------------------------------------------------
(* The evaluator's state *)

\* global_state g{}
InitGlobal ==
    [usage_page |-> 0, report_id |-> 0, report_size_bits |-> W0, report_count |-> W0,
     logical_min |-> 0, logical_max |-> 0, physical_min |-> 0, physical_max |-> 0,
     unit |-> W0, unit_exponent |-> 0]

\* local_state l{}
InitLocal ==
    [usages |-> <<>>, has_usage_minmax |-> FALSE, usage_min |-> W0, usage_max |-> W0]

\* no query result at hand
NoResult == [id |-> -1, result |-> <<>>]

\* local_state::clear()
local_clear_keeps_range(ls) == [ls EXCEPT !.usages = <<>>]
local_clear(ls) ==
    [ls EXCEPT !.usages = <<>>, !.has_usage_minmax = FALSE,
               !.usage_min = W0, !.usage_max = W0]

\* collection_node{}: cap is the capacity of the fields vector and buf numbers
\* the storage it currently uses (0: none allocated yet)
NewNode ==
    [type |-> 0, usage_page |-> 0, usage |-> W0, fields |-> <<>>, children |-> <<>>,
     cap |-> 0, buf |-> 0]

\* report_field f{}
NewField ==
    [kind |-> "input", flags |-> 0, report_id |-> 0, usage_page |-> 0, usages |-> <<>>,
     report_size_bits |-> W0, report_count |-> W0,
     logical_min |-> 0, logical_max |-> 0, physical_min |-> 0, physical_max |-> 0,
     unit |-> W0, unit_exponent |-> 0]

\* the ten members of global_state
GlobalFields ==
    {"usage_page", "report_id", "report_size_bits", "report_count", "logical_min",
     "logical_max", "physical_min", "physical_max", "unit", "unit_exponent"}

-----------------------------------------------------------------------------
(* Dispatch of Global and Local items *)

\* case 0x00 .. 0x09 of the Global switch (the mutant before it stores the
\* unit exponent without the cast to int8_t)
GlobalSetWideExponent(gs, item) ==
    CASE item.tag = \h00 -> [gs EXCEPT !.usage_page = Lo16(item.data)]
      [] item.tag = \h01 -> [gs EXCEPT !.logical_min = sign_extend(item.data, item.size)]
      [] item.tag = \h02 -> [gs EXCEPT !.logical_max = sign_extend(item.data, item.size)]
      [] item.tag = \h03 -> [gs EXCEPT !.physical_min = sign_extend(item.data, item.size)]
      [] item.tag = \h04 -> [gs EXCEPT !.physical_max = sign_extend(item.data, item.size)]
      [] item.tag = \h05 -> [gs EXCEPT !.unit_exponent = sign_extend(item.data, item.size)]
      [] item.tag = \h06 -> [gs EXCEPT !.unit = item.data]
      [] item.tag = \h07 -> [gs EXCEPT !.report_size_bits = item.data]
      [] item.tag = \h08 -> [gs EXCEPT !.report_id = Lo8(item.data)]
      [] item.tag = \h09 -> [gs EXCEPT !.report_count = item.data]
      [] OTHER -> gs
GlobalSet(gs, item) ==
    CASE item.tag = \h00 -> [gs EXCEPT !.usage_page = Lo16(item.data)]
      [] item.tag = \h01 -> [gs EXCEPT !.logical_min = sign_extend(item.data, item.size)]
      [] item.tag = \h02 -> [gs EXCEPT !.logical_max = sign_extend(item.data, item.size)]
      [] item.tag = \h03 -> [gs EXCEPT !.physical_min = sign_extend(item.data, item.size)]
      [] item.tag = \h04 -> [gs EXCEPT !.physical_max = sign_extend(item.data, item.size)]
      [] item.tag = \h05 -> [gs EXCEPT !.unit_exponent = I8(sign_extend(item.data, item.size))]
      [] item.tag = \h06 -> [gs EXCEPT !.unit = item.data]
      [] item.tag = \h07 -> [gs EXCEPT !.report_size_bits = item.data]
      [] item.tag = \h08 -> [gs EXCEPT !.report_id = Lo8(item.data)]
      [] item.tag = \h09 -> [gs EXCEPT !.report_count = item.data]
      [] OTHER -> gs

\* case 0x0A: gstack.push(g)
GlobalPush(gs, st) == [g |-> gs, gstack |-> Append(st, gs)]

\* case 0x0B: if (!gstack.empty()) { g = gstack.top(); gstack.pop(); }
GlobalPopKeepsState(gs, st) ==
    IF st # <<>> THEN [g |-> gs, gstack |-> SubSeq(st, 1, Len(st) - 1)]
                 ELSE [g |-> gs, gstack |-> st]
\* GlobalPop that restores the oldest saved state instead of the newest
GlobalPopBottom(gs, st) ==
    IF st # <<>> THEN [g |-> st[1], gstack |-> SubSeq(st, 1, Len(st) - 1)]
                 ELSE [g |-> gs, gstack |-> st]
\* GlobalPop that falls back to the initial global state on an empty stack
GlobalPopEmptyResets(gs, st) ==
    IF st # <<>> THEN [g |-> Last(st), gstack |-> SubSeq(st, 1, Len(st) - 1)]
                 ELSE [g |-> InitGlobal, gstack |-> st]
GlobalPop(gs, st) ==
    IF st # <<>> THEN [g |-> Last(st), gstack |-> SubSeq(st, 1, Len(st) - 1)]
                 ELSE [g |-> gs, gstack |-> st]

\* the Global switch
GlobalDispatch(gs, st, item) ==
    CASE item.tag = \h0A -> GlobalPush(gs, st)
      [] item.tag = \h0B -> GlobalPop(gs, st)
      [] OTHER -> [g |-> GlobalSet(gs, item), gstack |-> st]

\* the Local switch
LocalDispatchUsageReplaces(ls, item) ==
    CASE item.tag = \h00 -> [ls EXCEPT !.usages = <<item.data>>]
      [] item.tag = \h01 -> [ls EXCEPT !.has_usage_minmax = TRUE, !.usage_min = item.data]
      [] item.tag = \h02 -> [ls EXCEPT !.has_usage_minmax = TRUE, !.usage_max = item.data]
      [] OTHER -> ls
LocalDispatchOtherClears(ls, item) ==
    CASE item.tag = \h00 -> [ls EXCEPT !.usages = Append(@, item.data)]
      [] item.tag = \h01 -> [ls EXCEPT !.has_usage_minmax = TRUE, !.usage_min = item.data]
      [] item.tag = \h02 -> [ls EXCEPT !.has_usage_minmax = TRUE, !.usage_max = item.data]
      [] OTHER -> local_clear(ls)
LocalDispatch(ls, item) ==
    CASE item.tag = \h00 -> [ls EXCEPT !.usages = Append(@, item.data)]
      [] item.tag = \h01 -> [ls EXCEPT !.has_usage_minmax = TRUE, !.usage_min = item.data]
      [] item.tag = \h02 -> [ls EXCEPT !.has_usage_minmax = TRUE, !.usage_max = item.data]
      [] OTHER -> ls

-----------------------------------------------------------------------------
(* Construction of a Field *)

\* f.kind
field_kind(tag) ==
    IF tag = \h08 THEN "input" ELSE IF tag = \h09 THEN "output" ELSE "feature"

\* lines 246-250: kind, flags, report_id and usage_page of the new field
FieldHead(gs, item) ==
    [NewField EXCEPT !.kind = field_kind(item.tag), !.flags = Lo8(item.data),
                     !.report_id = gs.report_id, !.usage_page = gs.usage_page]

\* lines 258-265: the numeric attributes copied from the global state
FieldTailNoLogicalMin(fld, gs) ==
    [fld EXCEPT !.report_size_bits = gs.report_size_bits,
                !.report_count = gs.report_count,
                !.logical_max = gs.logical_max,
                !.physical_min = gs.physical_min, !.physical_max = gs.physical_max,
                !.unit = gs.unit, !.unit_exponent = gs.unit_exponent]
FieldTail(fld, gs) ==
    [fld EXCEPT !.report_size_bits = gs.report_size_bits,
                !.report_count = gs.report_count,
                !.logical_min = gs.logical_min, !.logical_max = gs.logical_max,
                !.physical_min = gs.physical_min, !.physical_max = gs.physical_max,
                !.unit = gs.unit, !.unit_exponent = gs.unit_exponent]

\* "else if (!l.usages.empty()) f.usages = l.usages"
CopyUsages(fld, ls) ==
    IF ls.usages # <<>> THEN [fld EXCEPT !.usages = ls.usages] ELSE fld

\* "u <= l.usage_max", the condition of the expansion loop
RangeContinues(v, ls) == ULe(v, ls.usage_max)

\* "++u" on a uint32_t
NextUsage(v) == UInc(v)

\* fields.emplace_back on a node: the vector takes new storage when it is full
\* (capacity doubling), and the field becomes its last element; the mutant
\* before it lets the fields already held follow the live state
EmplaceFieldOverwrites(node, fld) ==
    LET full == Len(node.fields) = node.cap
    IN  [node EXCEPT !.fields = [i \in 1..(Len(@) + 1) |-> fld],
                     !.cap = IF full THEN (IF @ = 0 THEN 1 ELSE 2 * @) ELSE @,
                     !.buf = IF full THEN @ + 1 ELSE @]
EmplaceField(node, fld) ==
    LET full == Len(node.fields) = node.cap
    IN  [node EXCEPT !.fields = Append(@, fld),
                     !.cap = IF full THEN (IF @ = 0 THEN 1 ELSE 2 * @) ELSE @,
                     !.buf = IF full THEN @ + 1 ELSE @]

\* the field a pointer or a history entry designates
FieldAt(e) == nodes[e.node].fields[e.slot]

\* "index_by_report_id_[pf->report_id].push_back(pf)"
IndexPushKeyZero(idx, k, pf) ==
    IF 0 \in DOMAIN idx THEN [idx EXCEPT ![0] = Append(@, pf)] ELSE idx @@ (0 :> <<pf>>)
IndexPushFront(idx, k, pf) ==
    IF k \in DOMAIN idx THEN [idx EXCEPT ![k] = <<pf>> \o @] ELSE idx @@ (k :> <<pf>>)
IndexPushReplaces(idx, k, pf) ==
    IF k \in DOMAIN idx THEN [idx EXCEPT ![k] = <<pf>>] ELSE idx @@ (k :> <<pf>>)
IndexPush(idx, k, pf) ==
    IF k \in DOMAIN idx THEN [idx EXCEPT ![k] = Append(@, pf)] ELSE idx @@ (k :> <<pf>>)


-----------------------------------------------------------------------------
(* The descriptors parsed *)

\* all concatenations of at most n elements of A
RECURSIVE Concats(_, _)
Concats(A, n) ==
    IF n = 0 THEN {<<>>}
    ELSE LET S == Concats(A, n - 1) IN S \cup {s \o a : s \in S, a \in A}

\* every truncation of B at a byte boundary
Prefixes(B) == {SubSeq(B, 1, n) : n \in 0..Len(B)}

\* single bytes for free byte sequences: long item prefix, Main items of
\* size 0, 1, 2, a 4-byte Local Usage, an Input of size 1
TokenBytes == {<<\hFE>>, <<\h00>>, <<\h01>>, <<\h02>>, <<\h0B>>, <<\h81>>}

\* encoded items, grouped by what they exercise
TreeItems ==        \* Collection, End Collection, Input, Report ID 1, Usage 2
    {<<\hA1, \h01>>, <<\hC0>>, <<\h81, \h02>>, <<\h85, \h01>>, <<\h09, \h02>>}
GlobalItems ==      \* Push, Pop, Usage Page 1, Logical Minimum -1, Feature
    {<<\hA4>>, <<\hB4>>, <<\h05, \h01>>, <<\h15, \hFF>>, <<\hB1, \h03>>}
LocalItems ==       \* Usage 2, Usage 3, Usage Minimum 1, Usage Maximum 2, Output
    {<<\h09, \h02>>, <<\h09, \h03>>, <<\h19, \h01>>, <<\h29, \h02>>, <<\h91, \h00>>}
RangeItems ==       \* Usage Minimum 0xFFFFFFFE, Usage Maximum 0xFFFFFFFF, Usage Maximum 1,
                    \* Usage 5, Input with two data bytes
    {<<\h1B, \hFE, \hFF, \hFF, \hFF>>, <<\h2B, \hFF, \hFF, \hFF, \hFF>>, <<\h29, \h01>>,
     <<\h09, \h05>>, <<\h82, \h02, \h01>>}
StackItems ==       \* Push, Pop, Collection, End Collection, Usage Page 9
    {<<\hA4>>, <<\hB4>>, <<\hA1, \h00>>, <<\hC0>>, <<\h05, \h09>>}
OtherItems ==       \* Usage 2, Usage Minimum 1, Main tag 0, long item without data,
                    \* Local String Index, Report ID 2
    {<<\h09, \h02>>, <<\h19, \h01>>, <<\h00>>, <<\hFE, \h00, \h00>>, <<\h79, \h01>>,
     <<\h85, \h02>>}

\* one Logical/Physical Minimum/Maximum item of every width, its data bytes
\* drawn from the largest positive and the two extreme negative byte values
SignBytes == {\h7F, \h80, \hFF}
MinMaxItems ==
    UNION {{<<16 * tag + 4 + code>> \o d :
                d \in [1..(IF code = 3 THEN 4 ELSE code) -> SignBytes]} :
           tag \in 1..4, code \in 0..3}

\* one Global item of every width for the tags that mask or copy their data
\* (Usage Page, Unit Exponent, Unit, Report Size, Report ID, Report Count) and
\* for two tags above Pop, every data byte the same value of SignBytes
GlobalTagItems ==
    UNION {{<<16 * tag + 4 + code>> \o [i \in 1..(IF code = 3 THEN 4 ELSE code) |-> b] :
                b \in SignBytes} :
           tag \in {0, 5, 6, 7, 8, 9, 12, 15}, code \in 0..3}

EvalItems == {TreeItems, GlobalItems, LocalItems, RangeItems, StackItems, OtherItems}

\* the end-to-end scenarios of the specification: minimal mouse, long item skip
MinimalMouse ==
    <<\h05, \h01, \h09, \h02, \hA1, \h01, \h09, \h01, \hA1, \h00, \h05, \h09,
      \h19, \h01, \h29, \h03, \h15, \h00, \h25, \h01, \h95, \h03, \h75, \h01,
      \h81, \h02, \h95, \h01, \h75, \h05, \h81, \h03, \hC0, \hC0>>
LongItemSkip == <<\hFE, \h03, \hAA, \h11, \h22, \h33, \h05, \h01>>

\* descriptors that end inside an item: a long item after a Usage, with its
\* header cut short or complete, and a two-byte Input inside a collection
UsageThenCutLong == <<\h09, \h02, \hFE, \h81>>
UsageThenLong == <<\h09, \h02, \hFE, \h01, \h00, \hAA, \h81, \h02>>
CollectionThenWideInput == <<\hA1, \h01, \h82, \h02, \h01>>

\* Push, a four-byte Usage Page 0xFFFF1234, Pop, Usage 1, Input
PagePushPopUsage ==
    <<\hA4, \h07, \h34, \h12, \hFF, \hFF, \hB4, \h09, \h01, \h81, \h02>>

Scenarios ==
    Prefixes(MinimalMouse) \cup Prefixes(LongItemSkip)
    \cup Prefixes(UsageThenCutLong) \cup Prefixes(UsageThenLong)
    \cup Prefixes(CollectionThenWideInput)
    \cup Prefixes(PagePushPopUsage)

Descriptors ==
    Concats(TokenBytes, MaxBytes)
    \cup UNION {Concats(A, MaxItems) : A \in EvalItems}
    \cup Scenarios
    \cup MinMaxItems
    \cup GlobalTagItems

-----------------------------------------------------------------------------
(* report_descriptor_tree::parse *)

\* the variables of the command line program
cliVars == <<args, cpc, exc, stdout, exit, env>>

\* char* argv[k] that is a null pointer, and one that points to the characters cs
NullArg == [null |-> TRUE, chars |-> <<>>]
Arg(cs) == [null |-> FALSE, chars |-> cs]

\* no exception in flight
NoExc == [type |-> "none", what |-> "", usage |-> ""]

\* main not entered
CliIdle ==
    /\ args = [argc |-> 0, command |-> "", arg3 |-> NullArg, arg4 |-> NullArg]
    /\ cpc = "idle"
    /\ exc = NoExc
    /\ stdout = <<>>
    /\ exit = -1
    /\ env = <<>>

\* the device objects of the program: dev of main, and a second one
Devices == {"dev", "other"}

\* no device object constructed and no call made yet
DevIdle ==
    /\ fd = [d \in Devices |-> -1]
    /\ live = {}
    /\ oscalls = <<>>
    /\ ops = <<>>

\* the parser, the renderer and the index before parse is called
ParserFresh ==
    /\ p = 0
    /\ it = NoItem
    /\ g = InitGlobal
    /\ gstack = <<>>
    /\ l = InitLocal
    /\ nodes = <<NewNode>>
    /\ stack = <<1>>
    /\ current = 1
    /\ index = <<>>
    /\ found = NoResult
    /\ f = NewField
    /\ u = W0
    /\ rp = 0
    /\ depth = 0
    /\ rpage = 0
    /\ out = <<>>
    /\ items = <<>>
    /\ reads = {}
    /\ glog = <<>>
    /\ emitted = <<>>

Init ==
    /\ DevIdle
    /\ CliIdle
    /\ bytes \in Descriptors
    /\ pc = "parse"
    /\ ParserFresh

\* no descriptor at hand and parse not called
HidIdle ==
    /\ bytes = <<>>
    /\ pc = "idle"
    /\ ParserFresh

\* "item it = parse_item(p, end)" at the head of an iteration of the item loop
Fetch == parse_item(bytes, p, Len(bytes))

\* the loop is at its head with input left
AtItem == pc = "parse" /\ p < Len(bytes)

\* what tokenizing r does to the cursor, the current item and the history
Tokenize(r) ==
    /\ p' = r.p
    /\ it' = r.it
    /\ items' = Append(items, [start |-> p, stop |-> r.p, it |-> r.it])
    /\ reads' = reads \cup r.reads

\* the history of global states follows the item just evaluated
LogGlobal == glog' = Append(glog, [g |-> g', depth |-> Len(gstack'),
                                   open |-> Len(stack') - 1])

\* lines 258-270: complete the field fld of item number n, append it to the
\* current collection, index it, clear the local state
EmitField(fld, n) ==
    LET done == FieldTail(fld, g)
        node == EmplaceField(nodes[current], done)
        pf == [node |-> current, slot |-> Len(node.fields), buf |-> node.buf]
    IN  /\ nodes' = [nodes EXCEPT ![current] = node]
        /\ index' = IndexPush(index, done.report_id, pf)
        /\ emitted' = Append(emitted, [node |-> current, slot |-> pf.slot, item |-> n])
        /\ l' = local_clear(l)
        /\ f' = NewField
        /\ u' = W0
        /\ pc' = "parse"

\* case 0x0A of the Main switch
\* lines 225-228: the node of a Collection item
CollectionNode(gs, ls, item) ==
    [NewNode EXCEPT !.type = Lo8(item.data),
                    !.usage_page = gs.usage_page,
                    !.usage = IF ls.usages # <<>> THEN Last(ls.usages) ELSE W0]

\* AttachChild that hangs every node below the root
AttachChildToRoot(ns, cur, node) ==
    Append([ns EXCEPT ![1].children = Append(@, Len(ns) + 1)], node)

\* "current->children.emplace_back(std::move(node))": the tree owns the node
\* under the next number, as the last child of cur
AttachChild(ns, cur, node) ==
    Append([ns EXCEPT ![cur].children = Append(@, Len(ns) + 1)], node)

Collection ==
    /\ AtItem
    /\ LET r == Fetch
           id == Len(nodes) + 1
           node == CollectionNode(g, l, r.it)
       IN  /\ r.it.type = 0 /\ r.it.tag = \h0A
           /\ Tokenize(r)
           /\ nodes' = AttachChild(nodes, current, node)
           /\ current' = id
           /\ stack' = Append(stack, id)
           /\ l' = local_clear(l)
    /\ UNCHANGED <<cliVars, devVars, bytes, pc, g, gstack, index, f, u, emitted, renderVars, found>>
    /\ LogGlobal

\* CloseCollection without stack.pop(): current moves up, the stack stays
CloseCollectionKeepsStack(st, cur) ==
    IF Len(st) > 1
    THEN [stack |-> st, current |-> st[Len(st) - 1]]
    ELSE [stack |-> st, current |-> cur]

\* CloseCollection without the size test: the root can be popped too
CloseCollectionUnguarded(st, cur) ==
    [stack |-> SubSeq(st, 1, Len(st) - 1),
     current |-> IF Len(st) > 1 THEN st[Len(st) - 1] ELSE cur]

\* if (stack.size() > 1) { stack.pop(); current = stack.top(); }
CloseCollection(st, cur) ==
    IF Len(st) > 1
    THEN [stack |-> SubSeq(st, 1, Len(st) - 1), current |-> st[Len(st) - 1]]
    ELSE [stack |-> st, current |-> cur]

\* case 0x0C of the Main switch
EndCollection ==
    /\ AtItem
    /\ LET r == Fetch
       IN  /\ r.it.type = 0 /\ r.it.tag = \h0C
           /\ Tokenize(r)
    /\ stack' = CloseCollection(stack, current).stack
    /\ current' = CloseCollection(stack, current).current
    /\ l' = local_clear(l)
    /\ UNCHANGED <<cliVars, devVars, bytes, pc, g, gstack, nodes, index, f, u, emitted, renderVars, found>>
    /\ LogGlobal

\* cases 0x08, 0x09, 0x0B of the Main switch, up to the usages of the field
MainField ==
    /\ AtItem
    /\ LET r == Fetch
       IN  /\ r.it.type = 0 /\ r.it.tag \in {\h08, \h09, \h0B}
           /\ Tokenize(r)
           /\ IF l.has_usage_minmax
              THEN /\ f' = FieldHead(g, r.it)
                   /\ u' = l.usage_min
                   /\ pc' = "expand"
                   /\ UNCHANGED <<nodes, index, emitted, l>>
              ELSE EmitField(CopyUsages(FieldHead(g, r.it), l), Len(items) + 1)
    /\ UNCHANGED <<cliVars, devVars, bytes, g, gstack, stack, current, renderVars, found>>
    /\ LogGlobal

\* one test of "for (uint32_t u = l.usage_min; u <= l.usage_max; ++u)" and
\* either its body, f.usages.push_back(u), or the rest of the case
ExpandLoop ==
    /\ pc = "expand"
    /\ IF RangeContinues(u, l)
       THEN IF Len(f.usages) >= MemLimit
            THEN /\ pc' = "bad_alloc"
                 /\ UNCHANGED <<f, u, nodes, index, emitted, l>>
            ELSE /\ f' = [f EXCEPT !.usages = Append(@, u)]
                 /\ u' = NextUsage(u)
                 /\ UNCHANGED <<pc, nodes, index, emitted, l>>
       ELSE EmitField(f, Len(items))
    /\ UNCHANGED <<cliVars, devVars, bytes, p, it, g, gstack, stack, current, items, reads, glog, renderVars, found>>

\* default of the Main switch
MainOther ==
    /\ AtItem
    /\ LET r == Fetch
       IN  /\ r.it.type = 0 /\ r.it.tag \notin {\h0A, \h0C, \h08, \h09, \h0B}
           /\ Tokenize(r)
    /\ l' = local_clear(l)
    /\ UNCHANGED <<cliVars, devVars, bytes, pc, g, gstack, nodes, stack, current, index, f, u, emitted, renderVars, found>>
    /\ LogGlobal

\* case 1 of the type switch
GlobalItem ==
    /\ AtItem
    /\ LET r == Fetch
           d == GlobalDispatch(g, gstack, r.it)
       IN  /\ r.it.type = 1
           /\ Tokenize(r)
           /\ g' = d.g
           /\ gstack' = d.gstack
    /\ UNCHANGED <<cliVars, devVars, bytes, pc, l, nodes, stack, current, index, f, u, emitted, renderVars, found>>
    /\ LogGlobal

\* case 2 of the type switch
LocalItem ==
    /\ AtItem
    /\ LET r == Fetch
       IN  /\ r.it.type = 2
           /\ Tokenize(r)
           /\ l' = LocalDispatch(l, r.it)
    /\ UNCHANGED <<cliVars, devVars, bytes, pc, g, gstack, nodes, stack, current, index, f, u, emitted, renderVars, found>>
    /\ LogGlobal

\* default of the type switch
ReservedItem ==
    /\ AtItem
    /\ LET r == Fetch
       IN  /\ r.it.type = 3
           /\ Tokenize(r)
    /\ UNCHANGED <<cliVars, devVars, bytes, pc, g, gstack, l, nodes, stack, current, index, f, u, emitted, renderVars, found>>
    /\ LogGlobal

\* "while (p < end)" is false: return tree
Return ==
    /\ pc = "parse"
    /\ p >= Len(bytes)
    /\ pc' = "returned"
    /\ UNCHANGED <<cliVars, devVars, bytes, parseVars, reads, renderVars, found>>

-----------------------------------------------------------------------------
(* report_descriptor_tree::to_string *)

\* the description written after the indent
Describe(item) ==
    CASE item.type = 0 ->
            (CASE item.tag = \h0A -> "Collection"
               [] item.tag = \h0C -> "End Collection"
               [] item.tag = \h08 -> "Input"
               [] item.tag = \h09 -> "Output"
               [] item.tag = \h0B -> "Feature"
               [] OTHER -> "Main")
      [] item.type = 1 -> "Global"
      [] item.type = 2 -> "Local"
      [] OTHER -> "Reserved"

\* append_item_bytes(os, start, end): the bytes listed on the line, the mutant
\* before it stopping one byte early
append_item_bytes_short(B, start, end) == SubSeq(B, start + 1, end - 1)
append_item_bytes(B, start, end) == SubSeq(B, start + 1, end)

\* "\n// N bytes\n" with N = source_bytes_.size()
Trailer(B) == [start |-> Len(B), stop |-> Len(B), indent |-> 0, text |-> "bytes",
               raw |-> <<>>, count |-> Len(B)]

\* the renderer's usage_page after an item, the mutant before it restoring
\* page 0 on a Global Pop
RenderPagePopResets(page, item) ==
    IF item.type = 1 /\ item.tag = \h00 THEN Lo16(item.data)
    ELSE IF item.type = 1 /\ item.tag = \h0B THEN 0
    ELSE page

\* "case 0x00: usage_page = (uint16_t)it.data", no other item assigns it
RenderPage(page, item) ==
    IF item.type = 1 /\ item.tag = \h00 THEN Lo16(item.data) ELSE page

\* the renderer's depth after an item, the mutant before it decrementing on
\* every End Collection
RenderDepthUnguarded(d, item) ==
    IF item.type = 0 /\ item.tag = \h0A THEN d + 1
    ELSE IF item.type = 0 /\ item.tag = \h0C THEN d - 1
    ELSE d

\* "++depth" for a Collection, "if (depth > 0) --depth" for an End Collection
RenderDepth(d, item) ==
    IF item.type = 0 /\ item.tag = \h0A THEN d + 1
    ELSE IF item.type = 0 /\ item.tag = \h0C /\ d > 0 THEN d - 1
    ELSE d

\* lines 351-356
ToStringBegin ==
    /\ pc = "returned"
    /\ pc' = "to_string"
    /\ rp' = 0
    /\ depth' = 0
    /\ rpage' = 0
    /\ out' = <<>>
    /\ found' = NoResult
    /\ UNCHANGED <<cliVars, devVars, bytes, parseVars, reads>>

\* one iteration of "while (p && p < end)"
ToStringItem ==
    /\ pc = "to_string"
    /\ rp < Len(bytes)
    /\ LET r == parse_item(bytes, rp, Len(bytes))
       IN  /\ rp' = r.p
           /\ reads' = reads \cup r.reads
           /\ out' = Append(out, [start |-> rp, stop |-> r.p, indent |-> depth,
                                  text |-> Describe(r.it),
                                  raw |-> append_item_bytes(bytes, rp, r.p),
                                  page |-> RenderPage(rpage, r.it),
                                  item |-> r.it])
           /\ depth' = RenderDepth(depth, r.it)
           /\ rpage' = RenderPage(rpage, r.it)
    /\ UNCHANGED <<cliVars, devVars, bytes, pc, parseVars, found>>

\* the trailer "\n// N bytes\n"
ToStringEnd ==
    /\ pc = "to_string"
    /\ rp >= Len(bytes)
    /\ out' = Append(out, Trailer(bytes))
    /\ pc' = "rendered"
    /\ UNCHANGED <<cliVars, devVars, bytes, parseVars, reads, rp, depth, rpage, found>>

-----------------------------------------------------------------------------
(* report_descriptor_tree::find_by_report_id *)

\* the report ids the caller asks for
QueryIds == {0, 1, 255}

\* "if (it == index_by_report_id_.end()) return {}; return it->second;"
find_by_report_id(idx, id) == IF id \in DOMAIN idx THEN idx[id] ELSE <<>>

\* a lookup with index_by_report_id_[report_id], which inserts a missing key
IndexAfterSubscript(idx, id) ==
    IF id \in DOMAIN idx THEN idx ELSE [k \in DOMAIN idx \cup {id} |->
                                          IF k = id THEN <<>> ELSE idx[k]]

\* index_by_report_id_ after the lookup: the method is const and looks the
\* key up with find()
IndexAfterFind(idx, id) == idx

\* a call of find_by_report_id on the tree parse has returned
FindByReportId ==
    /\ pc \in {"returned", "rendered"}
    /\ \E id \in QueryIds :
          /\ found' = [id |-> id, result |-> find_by_report_id(index, id)]
          /\ index' = IndexAfterFind(index, id)
    /\ UNCHANGED <<cliVars, devVars, bytes, pc, p, it, g, gstack, l, nodes, stack, current, f, u,
                   items, glog, emitted, reads, rp, depth, rpage, out>>

-----------------------------------------------------------------------------

Next ==
    \/ FindByReportId
    \/ Collection
    \/ EndCollection
    \/ MainField
    \/ ExpandLoop
    \/ MainOther
    \/ GlobalItem
    \/ LocalItem
    \/ ReservedItem
    \/ Return
    \/ ToStringBegin
    \/ ToStringItem
    \/ ToStringEnd

Spec == Init /\ [][Next]_vars

-----------------------------------------------------------------------------
(* hidraw::device *)

\* most member function calls made on the device objects in one behaviour
MaxOps == 4

\* the lengths of the buffers handed to feature_get
BufLens == 0..2

\* the values of errno a failing system call leaves: EIO, EACCES
Errnos == {5, 13}

\* what ioctl(HIDIOCGFEATURE(len)) can return: -1 or a count of bytes
OsRets(len) == -1..(len + 1)

\* bool valid() const noexcept { return fd != -1; }
valid(d) == fd[d] # -1

\* the file descriptor a successful ::open returns: one never handed out before
NextHandle == 3 + Cardinality({i \in 1..Len(oscalls) :
                                  oscalls[i].call = "open" /\ oscalls[i].ret >= 0})

\* how a member function ended: returned, or threw an exception of a type
\* with a message and, for std::system_error, the value of errno
Returned == [type |-> "none", what |-> "", code |-> 0]
Threw(type, what) == [type |-> type, what |-> what, code |-> 0]
throw_system_error(what, err) == [type |-> "system_error", what |-> what, code |-> err]

\* one entry of the history of member function calls: the object, its fd at
\* the call, the arguments, how the call ended and how many system calls it issued
OpRecord(op, d, len, end, ncalls) ==
    [op |-> op, dev |-> d, fd |-> fd[d], len |-> len, end |-> end,
     first |-> Len(oscalls), ncalls |-> ncalls]

\* one entry of the history of system calls
OsCall(call, fdv, len, ret, err) ==
    [call |-> call, fd |-> fdv, len |-> len, ret |-> ret, err |-> err]

\* device::open
DevOpen ==
    /\ Len(ops) < MaxOps
    /\ \E d \in live :
          IF valid(d)
          THEN /\ ops' = Append(ops, OpRecord("open", d, 0,
                                  Threw("runtime_error", "Device already opened"), 0))
               /\ UNCHANGED <<fd, oscalls>>
          ELSE \E r \in {-1, NextHandle} : \E err \in (IF r < 0 THEN Errnos ELSE {0}) :
                  /\ oscalls' = Append(oscalls, OsCall("open", -1, 0, r, err))
                  /\ fd' = [fd EXCEPT ![d] = r]
                  /\ ops' = Append(ops, OpRecord("open", d, 0,
                                     IF r < 0
                                     THEN throw_system_error("Failed to open device", err)
                                     ELSE Returned, 1))
    /\ UNCHANGED <<live, hidVars, cliVars>>

\* device::close
DevClose ==
    /\ Len(ops) < MaxOps
    /\ \E d \in live :
          IF valid(d)
          THEN /\ oscalls' = Append(oscalls, OsCall("close", fd[d], 0, 0, 0))
               /\ fd' = [fd EXCEPT ![d] = -1]
               /\ ops' = Append(ops, OpRecord("close", d, 0, Returned, 1))
          ELSE /\ ops' = Append(ops, OpRecord("close", d, 0, Returned, 0))
               /\ UNCHANGED <<fd, oscalls>>
    /\ UNCHANGED <<live, hidVars, cliVars>>

\* feature_get that takes every count the system call reports as a full read
feature_get_any_count(fdv, len, ret, err) ==
    IF fdv < 0 THEN Threw("runtime_error", "Device not opened")
    ELSE IF len = 0 THEN Threw("invalid_argument", "Data buffer is empty")
    ELSE IF ret < 0 THEN throw_system_error("Failed to get feature report", err)
    ELSE Returned

\* device::feature_get on a buffer of len bytes, the ioctl (if it comes to it)
\* returning ret and leaving errno = err
feature_get(fdv, len, ret, err) ==
    IF fdv < 0 THEN Threw("runtime_error", "Device not opened")
    ELSE IF len = 0 THEN Threw("invalid_argument", "Data buffer is empty")
    ELSE IF ret < 0 THEN throw_system_error("Failed to get feature report", err)
    ELSE IF ret # len THEN Threw("runtime_error", "Incomplete feature report read")
    ELSE Returned

\* feature_get reaches its ioctl: the device is open and the buffer not empty
FeatureGetCalls(fdv, len) == ~(fdv < 0) /\ len # 0

DevFeatureGet ==
    /\ Len(ops) < MaxOps
    /\ \E d \in live : \E len \in BufLens :
          IF FeatureGetCalls(fd[d], len)
          THEN \E ret \in OsRets(len) : \E err \in (IF ret < 0 THEN Errnos ELSE {0}) :
                  /\ oscalls' = Append(oscalls, OsCall("HIDIOCGFEATURE", fd[d], len, ret, err))
                  /\ ops' = Append(ops, OpRecord("feature_get", d, len,
                                                 feature_get(fd[d], len, ret, err), 1))
          ELSE /\ ops' = Append(ops, OpRecord("feature_get", d, len,
                                              feature_get(fd[d], len, 0, 0), 0))
               /\ UNCHANGED oscalls
    /\ UNCHANGED <<fd, live, hidVars, cliVars>>

\* the const member functions that ask the device, and the ioctl requests
\* each issues in order (report_desc calls report_desc_size first)
Queries == {"report_desc_size", "report_desc", "raw_info", "raw_name", "addr"}
QueryRequests(q) ==
    CASE q = "report_desc_size" -> <<"HIDIOCGRDESCSIZE">>
      [] q = "report_desc" -> <<"HIDIOCGRDESCSIZE", "HIDIOCGRDESC">>
      [] q = "raw_info" -> <<"HIDIOCGRAWINFO">>
      [] q = "raw_name" -> <<"HIDIOCGRAWNAME">>
      [] q = "addr" -> <<"HIDIOCGRAWPHYS">>

\* the message of the std::system_error thrown when the request fails
QueryFailure(req) ==
    CASE req = "HIDIOCGRDESCSIZE" -> "Failed to get report descriptor size"
      [] req = "HIDIOCGRDESC" -> "Failed to get report descriptor"
      [] req = "HIDIOCGRAWINFO" -> "Failed to get raw info"
      [] req = "HIDIOCGRAWNAME" -> "Failed to get raw name"
      [] req = "HIDIOCGRAWPHYS" -> "Failed to get raw address"

\* a check that lets every fd through
FD_OPENED_UNCHECKED(fdv) == FALSE

\* ASSERT_FD_OPENED(): TRUE when it throws "Device not opened"
ASSERT_FD_OPENED(fdv) == fdv < 0

\* report_desc_size, report_desc, raw_info, raw_name, addr: the first k
\* requests succeed, the next one (if there is one) fails with errno = err
DevQuery ==
    /\ Len(ops) < MaxOps
    /\ \E d \in live : \E q \in Queries :
          LET reqs == QueryRequests(q)
          IN  IF ASSERT_FD_OPENED(fd[d])
              THEN /\ ops' = Append(ops, OpRecord(q, d, 0,
                                       Threw("runtime_error", "Device not opened"), 0))
                   /\ UNCHANGED oscalls
              ELSE \E k \in 0..Len(reqs) : \E err \in (IF k < Len(reqs) THEN Errnos ELSE {0}) :
                      LET n == Min(k + 1, Len(reqs))
                      IN  /\ oscalls' = oscalls \o
                                [i \in 1..n |-> OsCall(reqs[i], fd[d], 0,
                                                       IF i <= k THEN 0 ELSE -1,
                                                       IF i <= k THEN 0 ELSE err)]
                          /\ ops' = Append(ops, OpRecord(q, d, 0,
                                       IF k = Len(reqs) THEN Returned
                                       ELSE throw_system_error(QueryFailure(reqs[k + 1]), err),
                                       n))
    /\ UNCHANGED <<fd, live, hidVars, cliVars>>

\* one device object, constructed with device(): int fd = -1
DeviceInit ==
    /\ HidIdle
    /\ CliIdle
    /\ fd = [d \in Devices |-> -1]
    /\ live = {"dev"}
    /\ oscalls = <<>>
    /\ ops = <<>>

DeviceNext ==
    \/ DevOpen
    \/ DevClose
    \/ DevFeatureGet
    \/ DevQuery

DeviceSpec == DeviceInit /\ [][DeviceNext]_vars

-----------------------------------------------------------------------------
(* hidraw::device: construction, move, swap, destruction *)

\* a member function call that involves a second object
OpRecord2(op, d, e, ncalls) == [src |-> e] @@ OpRecord(op, d, 0, Returned, ncalls)

\* a move constructor that copies fd and leaves the source as it is
move_construct_copy(fds, d, e) == [fds EXCEPT ![d] = fds[e]]

\* device(device&& other): fd(std::exchange(other.fd, -1))
move_construct(fds, d, e) == [fds EXCEPT ![d] = fds[e], ![e] = -1]

\* void swap(device& other): std::ranges::swap(fd, other.fd)
swap(fds, d, e) == [fds EXCEPT ![d] = fds[e], ![e] = fds[d]]

\* device()
DevConstruct ==
    /\ Len(ops) < MaxOps
    /\ \E d \in Devices \ live :
          /\ fd' = [fd EXCEPT ![d] = -1]
          /\ live' = live \cup {d}
          /\ ops' = Append(ops, OpRecord("device()", d, 0, Returned, 0))
    /\ UNCHANGED <<oscalls, hidVars, cliVars>>

\* explicit device(path): open(path); when open throws there is no object
DevConstructOpen ==
    /\ Len(ops) < MaxOps
    /\ \E d \in Devices \ live : \E r \in {-1, NextHandle} :
       \E err \in (IF r < 0 THEN Errnos ELSE {0}) :
          /\ oscalls' = Append(oscalls, OsCall("open", -1, 0, r, err))
          /\ fd' = [fd EXCEPT ![d] = r]
          /\ live' = IF r < 0 THEN live ELSE live \cup {d}
          /\ ops' = Append(ops, OpRecord("device(path)", d, 0,
                             IF r < 0 THEN throw_system_error("Failed to open device", err)
                             ELSE Returned, 1))
    /\ UNCHANGED <<hidVars, cliVars>>

\* device(device&& other)
DevMoveConstruct ==
    /\ Len(ops) < MaxOps
    /\ \E d \in Devices \ live : \E e \in live :
          /\ fd' = move_construct(fd, d, e)
          /\ live' = live \cup {d}
          /\ ops' = Append(ops, OpRecord2("device(device&&)", d, e, 0))
    /\ UNCHANGED <<oscalls, hidVars, cliVars>>

\* operator=(device&& other): device(std::move(other)).swap(*this); the
\* temporary is called "tmp" here, and its destructor closes what it holds
DevMoveAssign ==
    /\ Len(ops) < MaxOps
    /\ \E d \in live : \E e \in live :
          LET withTmp == [x \in Devices \cup {"tmp"} |-> IF x = "tmp" THEN -1 ELSE fd[x]]
              moved == move_construct(withTmp, "tmp", e)
              swapped == swap(moved, "tmp", d)
          IN  /\ fd' = [x \in Devices |-> swapped[x]]
              /\ IF swapped["tmp"] # -1
                 THEN /\ oscalls' = Append(oscalls, OsCall("close", swapped["tmp"], 0, 0, 0))
                      /\ ops' = Append(ops, OpRecord2("operator=", d, e, 1))
                 ELSE /\ UNCHANGED oscalls
                      /\ ops' = Append(ops, OpRecord2("operator=", d, e, 0))
    /\ UNCHANGED <<live, hidVars, cliVars>>

\* swap(device& other)
DevSwap ==
    /\ Len(ops) < MaxOps
    /\ \E d \in live : \E e \in live :
          /\ fd' = swap(fd, d, e)
          /\ ops' = Append(ops, OpRecord2("swap", d, e, 0))
    /\ UNCHANGED <<live, oscalls, hidVars, cliVars>>

\* ~device(): close()
DevDestroy ==
    /\ Len(ops) < MaxOps
    /\ \E d \in live :
          /\ IF valid(d)
             THEN /\ oscalls' = Append(oscalls, OsCall("close", fd[d], 0, 0, 0))
                  /\ ops' = Append(ops, OpRecord("~device", d, 0, Returned, 1))
             ELSE /\ UNCHANGED oscalls
                  /\ ops' = Append(ops, OpRecord("~device", d, 0, Returned, 0))
          /\ fd' = [fd EXCEPT ![d] = -1]
          /\ live' = live \ {d}
    /\ UNCHANGED <<hidVars, cliVars>>

\* no device object yet
OwnerInit == HidIdle /\ DevIdle /\ CliIdle

OwnerNext ==
    \/ DevConstruct
    \/ DevConstructOpen
    \/ DevMoveConstruct
    \/ DevMoveAssign
    \/ DevSwap
    \/ DevDestroy
    \/ DevOpen
    \/ DevClose

OwnerSpec == OwnerInit /\ [][OwnerNext]_vars

-----------------------------------------------------------------------------
(* main *)

\* the commands array and the help command
Commands == {"dump", "dumphid", "send", "recv", "feature-get", "feature-set"}
help_command == "help"

\* the words tried as argv[1] and the texts tried as argv[3]
CommandWords == Commands \cup {help_command, "bogus"}
ReportIdArgs ==
    {<<>>, <<"0">>, <<"7">>, <<"2", "5", "5">>, <<"2", "5", "6">>, <<"0", "x", "F", "f">>,
     <<"0", "X">>, <<"0", "x", "1", "0", "0">>, <<"-", "1">>, <<"1", "g">>}

\* the argument vectors tried: argc from 1 to 5; argv[2] (the device path) and
\* argv[4] (a file path) matter only by being there or not
ArgVectors ==
    {[argc |-> 1, command |-> "", arg3 |-> NullArg, arg4 |-> NullArg]}
    \cup {[argc |-> n, command |-> c, arg3 |-> NullArg, arg4 |-> NullArg] :
             n \in 2..3, c \in CommandWords}
    \cup {[argc |-> 4, command |-> c, arg3 |-> Arg(a), arg4 |-> NullArg] :
             c \in CommandWords, a \in ReportIdArgs}
    \cup {[argc |-> 5, command |-> c, arg3 |-> Arg(a), arg4 |-> Arg(<<"f">>)] :
             c \in CommandWords, a \in ReportIdArgs}

\* the value of a character as a digit (99: not a digit in any base)
DigitValue(c) ==
    CASE c = "0" -> 0 [] c = "1" -> 1 [] c = "2" -> 2 [] c = "5" -> 5 [] c = "6" -> 6
      [] c = "7" -> 7 [] c \in {"f", "F"} -> 15
      [] OTHER -> 99

\* the number of characters of cs from position i + 1 on that are digits in the base
RECURSIVE DigitRun(_, _, _)
DigitRun(cs, base, i) ==
    IF i < Len(cs) /\ DigitValue(cs[i + 1]) < base
    THEN 1 + DigitRun(cs, base, i + 1) ELSE 0

\* the number the first n characters of cs denote in the base, 256 standing
\* for every number that a uint8_t cannot hold
RECURSIVE DigitsValue(_, _, _)
DigitsValue(cs, base, n) ==
    IF n = 0 THEN 0
    ELSE Min(256, DigitsValue(cs, base, n - 1) * base + DigitValue(cs[n]))

\* std::from_chars(first, last, value, base) for a uint8_t value
from_chars(cs, base) ==
    LET n == DigitRun(cs, base, 0)
    IN  IF n = 0 THEN [ec |-> "invalid_argument", ptr |-> 0, value |-> 0]
        ELSE IF DigitsValue(cs, base, n) > 255
             THEN [ec |-> "result_out_of_range", ptr |-> n, value |-> 0]
        ELSE [ec |-> "", ptr |-> n, value |-> DigitsValue(cs, base, n)]

\* wrong_usage_exception(cmd, message); unknown_command carries the full usage
wrong_usage_exception(usage, message) ==
    [type |-> "wrong_usage_exception", what |-> message, usage |-> usage]

\* any other exception derived from std::exception
std_exception(what) == [type |-> "std::exception", what |-> what, usage |-> ""]

\* parse_report_id that does not test "ptr != last"
parse_report_id_prefix(self, arg) ==
    IF arg = <<>> THEN wrong_usage_exception(self, "Wrong report ID")
    ELSE LET hex == Len(arg) >= 2 /\ arg[1] = "0" /\ arg[2] \in {"x", "X"}
             digits == IF hex THEN SubSeq(arg, 3, Len(arg)) ELSE arg
             r == from_chars(digits, IF hex THEN 16 ELSE 10)
         IN  IF r.ec # "" THEN wrong_usage_exception(self, "Wrong report ID")
             ELSE NoExc

\* parse_report_id(self, arg): the exception thrown, NoExc if a value is returned
parse_report_id(self, arg) ==
    IF arg = <<>> THEN wrong_usage_exception(self, "Wrong report ID")
    ELSE LET hex == Len(arg) >= 2 /\ arg[1] = "0" /\ arg[2] \in {"x", "X"}
             digits == IF hex THEN SubSeq(arg, 3, Len(arg)) ELSE arg
             r == from_chars(digits, IF hex THEN 16 ELSE 10)
         IN  IF r.ec # "" \/ r.ptr # Len(digits) \/ r.value > 255
             THEN wrong_usage_exception(self, "Wrong report ID")
             ELSE NoExc

\* the handlers of send and feature-set, which need argv[3] and argv[4], and
\* of recv and feature-get, which need argv[3]: what they throw before they
\* come to the device (NoExc: nothing)
HandlerArguments(cmd, a3, a4) ==
    CASE cmd \in {"send", "feature-set"} ->
            IF a3.null \/ a4.null
            THEN wrong_usage_exception(cmd, "Missing arguments")
            ELSE parse_report_id(cmd, a3.chars)
      [] cmd \in {"recv", "feature-get"} ->
            IF a3.null THEN wrong_usage_exception(cmd, "Missing arguments")
            ELSE parse_report_id(cmd, a3.chars)
      [] OTHER -> NoExc

\* send, recv and feature_set throw at once
NotImplemented(cmd) == cmd \in {"send", "recv", "feature-set"}

\* lines 317-332: the checks before the device is opened
CliArgs ==
    /\ cpc = "main"
    /\ IF args.argc < 2
       THEN /\ exc' = wrong_usage_exception("full", "Missing command.")
            /\ cpc' = "catch"
            /\ UNCHANGED <<stdout, exit>>
       ELSE IF args.command = help_command
       THEN /\ stdout' = Append(stdout, [kind |-> "usage", text |-> "full"])
            /\ exit' = 0
            /\ cpc' = "exited"
            /\ UNCHANGED exc
       ELSE IF args.command \notin Commands
       THEN /\ exc' = wrong_usage_exception("full", "Unknown command")
            /\ cpc' = "catch"
            /\ UNCHANGED <<stdout, exit>>
       ELSE IF args.argc < 3
       THEN /\ exc' = wrong_usage_exception(args.command, "Missing hidraw device path.")
            /\ cpc' = "catch"
            /\ UNCHANGED <<stdout, exit>>
       ELSE /\ cpc' = "open"
            /\ UNCHANGED <<exc, stdout, exit>>
    /\ UNCHANGED <<args, env, devVars, hidVars>>

\* lines 333-334: hidraw::device dev(argv[2])
CliOpen ==
    /\ cpc = "open"
    /\ \E r \in {-1, NextHandle} : \E err \in (IF r < 0 THEN Errnos ELSE {0}) :
          /\ oscalls' = Append(oscalls, OsCall("open", -1, 0, r, err))
          /\ fd' = [fd EXCEPT !["dev"] = r]
          /\ live' = IF r < 0 THEN live ELSE live \cup {"dev"}
          /\ IF r < 0
             THEN /\ exc' = std_exception("Failed to open device")
                  /\ env' = Append(env, "open failed")
                  /\ cpc' = "catch"
                  /\ UNCHANGED stdout
             ELSE /\ stdout' = Append(stdout, [kind |-> "info", text |-> "[Opened device]"])
                  /\ env' = Append(env, "opened")
                  /\ cpc' = "handler"
                  /\ UNCHANGED exc
    /\ UNCHANGED <<args, exit, ops, hidVars>>

\* line 335 and the handlers: the handler returns 0 or throws; dev goes out of
\* scope either way, and its destructor closes the device
CliHandler ==
    /\ cpc = "handler"
    /\ LET early == HandlerArguments(args.command, args.arg3, args.arg4)
       IN  \E works \in BOOLEAN :
              /\ oscalls' = Append(oscalls, OsCall("close", fd["dev"], 0, 0, 0))
              /\ fd' = [fd EXCEPT !["dev"] = -1]
              /\ live' = live \ {"dev"}
              /\ IF early # NoExc
                 THEN /\ exc' = early
                      /\ env' = Append(env, "arguments refused")
                      /\ cpc' = "catch"
                      /\ UNCHANGED <<stdout, exit>>
                 ELSE IF NotImplemented(args.command)
                 THEN /\ exc' = std_exception("Sorry, not implemented yet.")
                      /\ env' = Append(env, "handler failed")
                      /\ cpc' = "catch"
                      /\ UNCHANGED <<stdout, exit>>
                 ELSE IF works
                 THEN /\ stdout' = Append(stdout, [kind |-> "output", text |-> args.command])
                      /\ env' = Append(env, "handler returned")
                      /\ exit' = 0
                      /\ cpc' = "exited"
                      /\ UNCHANGED exc
                 ELSE /\ exc' = std_exception("handler failed")
                      /\ env' = Append(env, "handler failed")
                      /\ cpc' = "catch"
                      /\ UNCHANGED <<stdout, exit>>
    /\ UNCHANGED <<args, ops, hidVars>>

\* lines 336-343: the two catch clauses
CliCatch ==
    /\ cpc = "catch"
    /\ stdout' = IF exc.type = "wrong_usage_exception"
                 THEN stdout \o <<[kind |-> "error", text |-> exc.what],
                                  [kind |-> "usage", text |-> exc.usage]>>
                 ELSE Append(stdout, [kind |-> "error", text |-> exc.what])
    /\ exit' = 1
    /\ exc' = NoExc
    /\ cpc' = "exited"
    /\ UNCHANGED <<args, env, devVars, hidVars>>

-----------------------------------------------------------------------------
(* feature_get of main *)

\* most items in a descriptor the device reports, scenarios apart
MaxFeatureItems == 4

\* Feature, Input, Report ID 1, Report Size 3, Report Count 3,
\* Report Size 0x10000, Report Count 0x10000
FeatureItems ==
    {<<\hB1, \h02>>, <<\h81, \h02>>, <<\h85, \h01>>, <<\h75, \h03>>, <<\h95, \h03>>,
     <<\h77, \h00, \h00, \h01, \h00>>, <<\h97, \h00, \h00, \h01, \h00>>}

\* a Feature of 9 bits in the root, one in a collection and an Input in a
\* second collection: no collection holds two fields
FeatureInTwoCollections ==
    <<\h75, \h03, \h95, \h03, \hB1, \h02, \hA1, \h01, \hB1, \h02, \hC0,
      \hA1, \h01, \h81, \h02>>

\* a descriptor with items of every kind: Usage Page, Collection, Report ID 1,
\* Report Size 8, Report Count 2, Usage Minimum and Maximum, Feature, Usage,
\* Input, End Collection, a Main item of tag 0, a long item, Feature
FeatureDevice ==
    <<\h05, \h01, \hA1, \h01, \h85, \h01, \h75, \h08, \h95, \h02, \h19, \h01,
      \h29, \h02, \hB1, \h02, \h09, \h02, \h81, \h02, \hC0, \h00,
      \hFE, \h00, \h00, \hB1, \h02>>

\* the descriptors the device reports
FeatureDescriptors ==
    Concats(FeatureItems, MaxFeatureItems) \cup {FeatureInTwoCollections, FeatureDevice}

\* the argument vectors of a feature-get command
FeatureArgVectors ==
    {[argc |-> 4, command |-> "feature-get", arg3 |-> Arg(a), arg4 |-> NullArg] :
        a \in {<<"0">>, <<"1">>, <<"1", "g">>}}

\* the value parse_report_id returns for a text it accepts
report_id_value(arg) ==
    LET hex == Len(arg) >= 2 /\ arg[1] = "0" /\ arg[2] \in {"x", "X"}
    IN  from_chars(IF hex THEN SubSeq(arg, 3, Len(arg)) ELSE arg,
                   IF hex THEN 16 ELSE 10).value

\* x * y for 16-bit x and y: the low and the high 16 bits of the product
MulLo16(x, y) == ((((x \div 256) * y) % 256) * 256 + (x % 256) * y) % 65536
MulHi16(x, y) ==
    LET t1 == (x \div 256) * y
        t0 == (x % 256) * y
    IN  (t1 \div 256) + (((t1 % 256) * 256 + t0) \div 65536)

\* a * b and w + n (n below 2^16) on uint32_t, wrapping at 2^32
UMul(a, b) ==
    <<(MulHi16(a[2], b[2]) + MulLo16(a[1], b[2]) + MulLo16(a[2], b[1])) % 65536,
      MulLo16(a[2], b[2])>>
UAdd(w, n) == <<(w[1] + ((w[2] + n) \div 65536)) % 65536, (w[2] + n) % 65536>>

\* w / 8 on uint32_t, as a number
UDiv8(w) == (w[1] \div 8) * 65536 + (((w[1] % 8) * 65536 + w[2]) \div 8)

\* "(f->report_size_bits * f->report_count + 7) / 8" in uint32_t arithmetic
field_bytes(fld) == UDiv8(UAdd(UMul(fld.report_size_bits, fld.report_count), 7))

\* what "if (f->kind == feature) feature_size += ..." can add for the pointer
\* pf: the bytes of the field it points to, or, when the fields vector has
\* moved to other storage since the pointer was taken, what a read of the
\* freed storage yields (the old content, or other bytes that make the field
\* count for nothing or for one byte)
Contribution(pf) ==
    LET fld == FieldAt(pf)
        there == IF fld.kind = "feature" THEN field_bytes(fld) ELSE 0
    IN  IF pf.buf = nodes[pf.node].buf THEN {there} ELSE {there, 0, 1}

\* the values feature_size can have after the loop over the vector vec
RECURSIVE FeatureSizes(_)
FeatureSizes(vec) ==
    IF vec = <<>> THEN {0}
    ELSE {s + c : s \in FeatureSizes(SubSeq(vec, 1, Len(vec) - 1)),
                  c \in Contribution(vec[Len(vec)])}

\* ~device() at the end of main's try block: close()
DestroyDev(calls) ==
    /\ oscalls' = Append(calls, OsCall("close", fd["dev"], 0, 0, 0))
    /\ fd' = [fd EXCEPT !["dev"] = -1]
    /\ live' = live \ {"dev"}

\* feature_get_handler up to line 85 of feature_get: the arguments, then
\* dev.report_desc(), which fails or returns the descriptor of the device
MainReportDesc ==
    /\ cpc = "handler"
    /\ args.command = "feature-get"
    /\ LET early == HandlerArguments(args.command, args.arg3, args.arg4)
       IN  IF early # NoExc
           THEN /\ exc' = early
                /\ env' = Append(env, "arguments refused")
                /\ cpc' = "catch"
                /\ DestroyDev(oscalls)
                /\ UNCHANGED <<hidVars, ops>>
           ELSE \E k \in 0..2 : \E err \in (IF k < 2 THEN Errnos ELSE {0}) :
                   LET reqs == QueryRequests("report_desc")
                       n == Min(k + 1, 2)
                       calls == oscalls \o
                                [i \in 1..n |-> OsCall(reqs[i], fd["dev"], 0,
                                                       IF i <= k THEN 0 ELSE -1,
                                                       IF i <= k THEN 0 ELSE err)]
                   IN  IF k < 2
                       THEN /\ exc' = std_exception(QueryFailure(reqs[k + 1]))
                            /\ env' = Append(env, "handler failed")
                            /\ cpc' = "catch"
                            /\ ops' = Append(ops, OpRecord("report_desc", "dev", 0,
                                        throw_system_error(QueryFailure(reqs[k + 1]), err), n))
                            /\ DestroyDev(calls)
                            /\ UNCHANGED hidVars
                       ELSE /\ \E B \in FeatureDescriptors : bytes' = B
                            /\ pc' = "parse"
                            /\ cpc' = "feature_get"
                            /\ oscalls' = calls
                            /\ ops' = Append(ops, OpRecord("report_desc", "dev", 0, Returned, n))
                            /\ UNCHANGED <<exc, env, fd, live, parseVars, reads, renderVars, found>>
    /\ UNCHANGED <<args, stdout, exit>>

\* lines 87-110 of feature_get once parse has returned the tree, and the
\* end of main's try block
MainFeatureGet ==
    /\ cpc = "feature_get"
    /\ pc = "returned"
    /\ LET report_id == report_id_value(args.arg3.chars)
           field == find_by_report_id(index, report_id)
       IN  /\ found' = [id |-> report_id, result |-> field]
           /\ index' = IndexAfterFind(index, report_id)
           /\ \E feature_size \in FeatureSizes(field) :
                 IF feature_size = 0
                 THEN /\ exc' = std_exception("No feature report with ID found.")
                      /\ env' = Append(env, "handler failed")
                      /\ cpc' = "catch"
                      /\ DestroyDev(oscalls)
                      /\ UNCHANGED <<ops, stdout, exit>>
                 ELSE \E ret \in {-1, feature_size, feature_size + 1} :
                      \E err \in (IF ret < 0 THEN Errnos ELSE {0}) :
                         LET len == feature_size + 1
                             end == feature_get(fd["dev"], len, ret, err)
                             call == [byte0 |-> report_id] @@
                                     OsCall("HIDIOCGFEATURE", fd["dev"], len, ret, err)
                         IN  /\ ops' = Append(ops, OpRecord("feature_get", "dev", len, end, 1))
                             /\ DestroyDev(Append(oscalls, call))
                             /\ IF end = Returned
                                THEN /\ stdout' = Append(stdout, [kind |-> "output",
                                                                  text |-> args.command])
                                     /\ env' = Append(env, "handler returned")
                                     /\ exit' = 0
                                     /\ cpc' = "exited"
                                     /\ UNCHANGED exc
                                ELSE /\ exc' = std_exception(end.what)
                                     /\ env' = Append(env, "handler failed")
                                     /\ cpc' = "catch"
                                     /\ UNCHANGED <<stdout, exit>>
    /\ UNCHANGED <<args, bytes, pc, p, it, g, gstack, l, nodes, stack, current, f, u,
                   items, glog, emitted, reads, renderVars>>

\* main called with a feature-get command
FeatureInit ==
    /\ HidIdle
    /\ DevIdle
    /\ args \in FeatureArgVectors
    /\ cpc = "main"
    /\ exc = NoExc
    /\ stdout = <<>>
    /\ exit = -1
    /\ env = <<>>

FeatureNext ==
    \/ CliArgs
    \/ CliOpen
    \/ MainReportDesc
    \/ Collection
    \/ EndCollection
    \/ MainField
    \/ ExpandLoop
    \/ MainOther
    \/ GlobalItem
    \/ LocalItem
    \/ ReservedItem
    \/ Return
    \/ MainFeatureGet
    \/ CliCatch

FeatureSpec == FeatureInit /\ [][FeatureNext]_vars

CliInit ==
    /\ HidIdle
    /\ DevIdle
    /\ args \in ArgVectors
    /\ cpc = "main"
    /\ exc = NoExc
    /\ stdout = <<>>
    /\ exit = -1
    /\ env = <<>>

CliNext ==
    \/ CliArgs
    \/ CliOpen
    \/ CliHandler
    \/ CliCatch

CliSpec == CliInit /\ [][CliNext]_vars


-----------------------------------------------------------------------------
(* Reading the tree and the histories *)

\* parse has finished the item it tokenized last (it is not inside the
\* Input/Output/Feature case)
Settled == pc \notin {"expand", "bad_alloc"}

\* concatenation of a sequence of sequences
RECURSIVE Flatten(_)
Flatten(ss) == IF ss = <<>> THEN <<>> ELSE Head(ss) \o Flatten(Tail(ss))

\* the fields below node n, depth first, a collection's fields before its children
RECURSIVE DfsFields(_)
DfsFields(n) ==
    [s \in 1..Len(nodes[n].fields) |-> [node |-> n, slot |-> s]]
    \o Flatten([c \in 1..Len(nodes[n].children) |-> DfsFields(nodes[n].children[c])])

\* the fields of the tree
TreeFields == {DfsFields(1)[i] : i \in 1..Len(DfsFields(1))}

\* index[k] as the sequence of fields its pointers designate
IndexRefs(k) ==
    IF k \in DOMAIN index
    THEN [i \in 1..Len(index[k]) |-> [node |-> index[k][i].node, slot |-> index[k][i].slot]]
    ELSE <<>>

\* the report ids that occur in the tree or in the index
ReportIds == {FieldAt(r).report_id : r \in TreeFields} \cup DOMAIN index

\* the number of the item that emitted the field r
ItemOf(r) == (CHOOSE e \in {emitted[i] : i \in 1..Len(emitted)} :
                  e.node = r.node /\ e.slot = r.slot).item

IsMain(n) == items[n].it.type = 0
IsFieldItem(n) == IsMain(n) /\ items[n].it.tag \in {\h08, \h09, \h0B}
IsGlobal(n) == items[n].it.type = 1
IsPush(n) == IsGlobal(n) /\ items[n].it.tag = \h0A
IsPop(n) == IsGlobal(n) /\ items[n].it.tag = \h0B
IsLocal(n, tag) == items[n].it.type = 2 /\ items[n].it.tag = tag

\* a short item whose data payload was cut off by the end of the input
IsCutShort(n) ==
    items[n].it.size # \hFF /\ items[n].stop - items[n].start < 1 + items[n].it.size

\* the number of the last Main item before item n (0: none)
PrevMain(n) ==
    LET M == {m \in 1..(n - 1) : IsMain(m)}
    IN  IF M = {} THEN 0 ELSE CHOOSE m \in M : \A k \in M : k <= m

\* the numbers of the Local items with this tag between the previous Main item and item n
LocalsBefore(n, tag) == {k \in (PrevMain(n) + 1)..(n - 1) : IsLocal(k, tag)}

\* the data words of the Usage items between the previous Main item and item n, in stream order
UsagesBefore(n) ==
    LET sel == SelectSeq([k \in 1..(n - 1) |-> k], LAMBDA k : k \in LocalsBefore(n, \h00))
    IN  [i \in 1..Len(sel) |-> items[sel[i]].it.data]

\* the data of the last Local item with this tag before item n and after the previous Main item
LastLocalData(n, tag) ==
    LET K == LocalsBefore(n, tag)
    IN  IF K = {} THEN W0 ELSE items[CHOOSE k \in K : \A j \in K : j <= k].it.data

\* a Usage Minimum or Usage Maximum item was seen between the previous Main item and item n
RangeBefore(n) == LocalsBefore(n, \h01) \cup LocalsBefore(n, \h02) # {}

\* s is an initial part of the ascending sequence lo, lo+1, ..., hi
IsRangePrefix(s, lo, hi) ==
    /\ s # <<>> => s[1] = lo
    /\ \A i \in 1..Len(s) : ULe(s[i], hi)
    /\ \A i \in 1..(Len(s) - 1) : s[i + 1] = UInc(s[i]) /\ s[i + 1] # W0

\* s is the ascending sequence lo, lo+1, ..., hi (empty when lo > hi)
IsRange(s, lo, hi) ==
    /\ IsRangePrefix(s, lo, hi)
    /\ IF ULe(lo, hi) THEN s # <<>> /\ Last(s) = hi ELSE s = <<>>

\* the global state and the depth of the global stack before item n
GlobalBefore(n) == IF n = 1 THEN InitGlobal ELSE glog[n - 1].g
DepthBefore(n) == IF n = 1 THEN 0 ELSE glog[n - 1].depth

\* the offset up to which the tokenized items cover the descriptor
Covered == IF items = <<>> THEN 0 ELSE Last(items).stop

-----------------------------------------------------------------------------
(* Properties *)

\* C1: parse terminates and returns a tree for every byte sequence: it never
\* ends in a failure (here: the allocation failure the usage range expansion
\* runs into when its loop cannot end).
C1_ParseInfallible == pc # "bad_alloc"

\* C2: no call of parse_item, by parse or by to_string, dereferences an offset
\* at or beyond the end of the descriptor, and both cursors stay at or before
\* the end.
C2_ReadsInBounds ==
    /\ \A o \in reads : o < Len(bytes)
    /\ p <= Len(bytes)
    /\ rp <= Len(bytes)

\* C2 witness: both passes are over a descriptor that holds a long item and
\* ends inside the payload of a short item.
C2_Witness ==
    /\ pc = "rendered"
    /\ Len(items) >= 2
    /\ items[1].it.type = 3
    /\ IsCutShort(Len(items))

\* C3: the byte spans of the tokenized items are non-empty, start at offset 0,
\* follow each other without gap or overlap and end at or before the end of
\* the descriptor; when parse returns, a tail is left uncovered only if the
\* last item is a short item with a truncated payload.
C3_TokensTile ==
    /\ \A n \in 1..Len(items) :
          /\ items[n].start < items[n].stop
          /\ items[n].stop <= Len(bytes)
          /\ items[n].start = (IF n = 1 THEN 0 ELSE items[n - 1].stop)
    /\ p = Covered
    /\ pc = "returned" => (Covered = Len(bytes) \/ (items # <<>> /\ IsCutShort(Len(items))))

\* C3 witness: parse returned from a descriptor of several items, one of them
\* a long item, the last a short item with a truncated payload.
C3_Witness ==
    /\ pc = "returned"
    /\ Len(items) >= 2
    /\ IsCutShort(Len(items))
    /\ \E n \in 1..Len(items) : items[n].it.type = 3

\* C4: every Field carries the ten attributes of the global state as it was
\* immediately before its Main item, and flags equal to the low 8 bits of the
\* item's data.
C4_StateLocality ==
    Settled =>
        \A i \in 1..Len(emitted) :
            LET e == emitted[i]
            IN  /\ \A a \in GlobalFields : FieldAt(e)[a] = GlobalBefore(e.item)[a]
                /\ FieldAt(e).flags = items[e.item].it.data[2] % 256

\* C4 witness: a Field emitted under a global state that differs from the
\* initial one in two attributes.
C4_Witness ==
    \E i \in 1..Len(emitted) :
        /\ FieldAt(emitted[i]).usage_page # 0
        /\ FieldAt(emitted[i]).logical_min < 0

\* C5: after every Main item, of any tag, the local state is empty.
C5_LocalClearing ==
    (Settled /\ items # <<>> /\ IsMain(Len(items))) =>
        /\ l.usages = <<>>
        /\ l.has_usage_minmax = FALSE
        /\ l.usage_min = W0
        /\ l.usage_max = W0

\* C5 witness: a Main item of an unknown tag was evaluated right after a
\* Usage Minimum item that had set the range.
C5_Witness ==
    /\ pc = "parse"
    /\ Len(items) >= 2
    /\ IsMain(Len(items)) /\ items[Len(items)].it.tag = 0
    /\ IsLocal(Len(items) - 1, \h01)

\* C6: for every Push, k Global items other than Push and Pop, Pop in the
\* stream, the global state after the Pop equals the global state before the
\* Push in all ten attributes, and the global stack has the depth it had.
C6_PushPopSymmetry ==
    \A i \in 1..Len(items) : \A j \in (i + 1)..Len(items) :
        (/\ IsPush(i) /\ IsPop(j)
         /\ \A k \in (i + 1)..(j - 1) : IsGlobal(k) /\ ~IsPush(k) /\ ~IsPop(k))
        => /\ glog[j].g = GlobalBefore(i)
           /\ glog[j].depth = DepthBefore(i)

\* C6 witness: a Push under a global state that is not the initial one, a
\* Global item that changed the state, and the Pop that restored it.
C6_Witness ==
    \E i \in 1..Len(items) :
        /\ i + 2 <= Len(items)
        /\ IsPush(i) /\ IsPop(i + 2)
        /\ IsGlobal(i + 1) /\ ~IsPush(i + 1) /\ ~IsPop(i + 1)
        /\ GlobalBefore(i) # InitGlobal
        /\ glog[i + 1].g # glog[i].g
        /\ glog[i + 2].g = GlobalBefore(i)

\* C7: where a Usage Minimum or Usage Maximum item was seen since the last
\* Main item, the usages of the Field are, and the usages being collected for
\* it stay within, the ascending sequence usage_min .. usage_max (empty when
\* usage_min > usage_max), for all 32-bit values.
C7_UsageExpansion ==
    /\ Settled =>
          \A i \in 1..Len(emitted) :
              RangeBefore(emitted[i].item) =>
                  IsRange(FieldAt(emitted[i]).usages,
                          LastLocalData(emitted[i].item, \h01),
                          LastLocalData(emitted[i].item, \h02))
    /\ ~Settled => IsRangePrefix(f.usages, l.usage_min, l.usage_max)

\* C8: where no Usage Minimum or Usage Maximum item was seen since the last
\* Main item, the usages of the Field are the data words of the Usage items
\* seen since then, in stream order, duplicates kept.
C8_UsageList ==
    Settled =>
        \A i \in 1..Len(emitted) :
            ~RangeBefore(emitted[i].item) =>
                FieldAt(emitted[i]).usages = UsagesBefore(emitted[i].item)

\* C8 witness: a Field with three usages, one of them given twice.
C8_Witness ==
    \E i \in 1..Len(emitted) :
        LET us == FieldAt(emitted[i]).usages
        IN  /\ ~RangeBefore(emitted[i].item)
            /\ Len(us) = 3
            /\ us[1] # us[2]
            /\ us[2] = us[3]

C10_IndexStreamOrder ==
    Settled =>
        \A k \in DOMAIN index :
            /\ \A i \in 1..Len(index[k]) :
                  /\ IsFieldItem(ItemOf(index[k][i]))
                  /\ FieldAt(index[k][i]).report_id = k
            /\ \A i \in 1..(Len(index[k]) - 1) :
                  items[ItemOf(index[k][i])].start < items[ItemOf(index[k][i + 1])].start

\* C10 witness: a report id other than 0 is indexed with Fields of two
\* different collections.
C10_Witness ==
    \E k \in DOMAIN index :
        /\ k # 0
        /\ Len(index[k]) >= 2
        /\ index[k][1].node # index[k][2].node


\* C11: every pointer stored in the Report-ID index designates a Field that is
\* held, at the slot the pointer was taken for, in the storage its collection
\* currently uses for its fields.
C11_IndexRefsValid ==
    \A k \in DOMAIN index : \A i \in 1..Len(index[k]) :
        /\ index[k][i].node \in 1..Len(nodes)
        /\ index[k][i].slot \in 1..Len(nodes[index[k][i].node].fields)
        /\ index[k][i].buf = nodes[index[k][i].node].buf


IsCollection(n) == IsMain(n) /\ items[n].it.tag = \h0A
IsEndCollection(n) == IsMain(n) /\ items[n].it.tag = \h0C

\* the number of Collection items among the first n items that no End
\* Collection item among them has closed
RECURSIVE OpenAfter(_)
OpenAfter(n) ==
    IF n = 0 THEN 0
    ELSE IF IsCollection(n) THEN OpenAfter(n - 1) + 1
    ELSE IF IsEndCollection(n) /\ OpenAfter(n - 1) > 0 THEN OpenAfter(n - 1) - 1
    ELSE OpenAfter(n - 1)

\* the number of Collection items among the first n items whose matching End
\* Collection item is among them too
ClosedAfter(n) ==
    Cardinality({m \in 1..n : IsEndCollection(m) /\ OpenAfter(m - 1) > 0})

\* the nodes below node n, n included, depth first
RECURSIVE DfsNodes(_)
DfsNodes(n) ==
    <<n>> \o Flatten([c \in 1..Len(nodes[n].children) |-> DfsNodes(nodes[n].children[c])])

\* C12 as stated: the tree returned by parse has as many collection nodes, the
\* root not counted, as the stream has Collection items closed by a matching
\* End Collection item.
C12_NodesAreClosedCollections ==
    pc = "returned" => Len(nodes) - 1 = ClosedAfter(Len(items))

\* C12 amended: the tree has one node, attached below the root exactly once,
\* per Collection item of the stream, closed or not; the closed ones are the
\* nodes that are no longer on the collection stack.
C12_NodesAreCollectionItems ==
    /\ Len(nodes) - 1 = Cardinality({n \in 1..Len(items) : IsCollection(n)})
    /\ Len(nodes) - 1 = ClosedAfter(Len(items)) + (Len(stack) - 1)
    /\ Len(stack) - 1 = OpenAfter(Len(items))
    /\ Len(DfsNodes(1)) = Len(nodes)
    /\ {DfsNodes(1)[i] : i \in 1..Len(nodes)} = 1..Len(nodes)

C12_Witness ==
    /\ pc = "returned"
    /\ ClosedAfter(Len(items)) >= 1
    /\ Len(stack) > 1


\* the loop is about to evaluate an End Collection item with only the root open
EndAtRoot ==
    /\ AtItem
    /\ Fetch.it.type = 0 /\ Fetch.it.tag = \h0C
    /\ Len(stack) = 1

\* item m is an End Collection item met with only the root open, and no
\* Collection item lies between it and item n
StrayEndBefore(m, n) ==
    /\ m < n
    /\ IsEndCollection(m) /\ OpenAfter(m - 1) = 0
    /\ \A k \in (m + 1)..(n - 1) : ~IsCollection(k)

\* the root is at the bottom of the collection stack and current is its top
RootAtBottom == Len(stack) >= 1 /\ stack[1] = 1 /\ current = Last(stack)

\* every Field emitted after a stray End Collection, before any further
\* Collection, is held by the root
FieldsAfterStrayEndInRoot ==
    \A i \in 1..Len(emitted) :
        (\E m \in 1..Len(items) : StrayEndBefore(m, emitted[i].item))
            => emitted[i].node = 1

\* C13: the collection stack always holds at least the root, at its bottom; an
\* End Collection evaluated while only the root is open leaves the stack,
\* current and the tree as they are and only clears the local state; a Field
\* emitted afterwards is appended to the root.
C13_RootNeverPopped ==
    [][/\ RootAtBottom /\ RootAtBottom'
       /\ EndAtRoot => /\ stack' = stack /\ current' = current
                       /\ nodes' = nodes /\ index' = index
                       /\ g' = g /\ gstack' = gstack
                       /\ l'.usages = <<>> /\ ~l'.has_usage_minmax
       /\ FieldsAfterStrayEndInRoot'
       /\ (Len(emitted') > Len(emitted) /\ Len(stack) = 1)
              => /\ Last(emitted').node = 1
                 /\ Len(nodes'[1].fields) = Len(nodes[1].fields) + 1]_vars

C13_Witness ==
    \E i \in 1..Len(emitted) : \E m \in 2..Len(items) :
        /\ StrayEndBefore(m, emitted[i].item)
        /\ IsLocal(m - 1, \h00)
        /\ emitted[i].node = 1
        /\ FieldAt(emitted[i]).usages = <<>>

\* the loop is about to evaluate a Global Pop item with the global stack empty
PopOnEmpty ==
    /\ AtItem
    /\ Fetch.it.type = 1 /\ Fetch.it.tag = \h0B
    /\ gstack = <<>>

\* C14: a Global Pop evaluated while the global stack is empty changes nothing:
\* the global state, the global stack, the local state, the collection stack
\* and the tree stay as they are, and the loop goes on with the next item.
C14_PopOnEmptyIsNoOp ==
    [][PopOnEmpty => /\ g' = g /\ gstack' = <<>>
                     /\ l' = l
                     /\ stack' = stack /\ current' = current
                     /\ nodes' = nodes /\ index' = index
                     /\ pc' = "parse" /\ p' > p]_vars

C14_Witness ==
    /\ items # <<>>
    /\ IsPop(Len(items))
    /\ DepthBefore(Len(items)) = 0
    /\ g # InitGlobal
    /\ Len(stack) > 1


\* the item of a long item: Reserved, size and tag 0xFF, no data
LongItem == [size |-> \hFF, type |-> 3, tag |-> \hFF, data |-> W0]

\* item n starts with the long-item prefix
HasLongPrefix(n) == bytes[items[n].start + 1] = \hFE

\* the data-size byte of the long item that item n starts
LongDataSize(n) == bytes[items[n].start + 2]

\* the long item that item n starts has its size byte, its tag byte and all
\* the payload bytes its size byte announces inside the descriptor
LongItemComplete(n) ==
    /\ HasLongPrefix(n)
    /\ items[n].start + 3 <= Len(bytes)
    /\ items[n].start + 3 + LongDataSize(n) <= Len(bytes)

\* C15 as stated: a long item with data-size D that lies completely inside the
\* descriptor takes 2 + D bytes of it.
C15_LongItemTakesTwoPlusD ==
    \A n \in 1..Len(items) :
        LongItemComplete(n) => items[n].stop - items[n].start = 2 + LongDataSize(n)

\* C15 amended: a long item with data-size D that lies completely inside the
\* descriptor takes 3 + D bytes of it (prefix, size byte, tag byte, payload),
\* is yielded as one Reserved item with size 0xFF, tag 0xFF and data 0, and
\* the next item starts at the byte after the payload.
C15_LongItemTakesThreePlusD ==
    \A n \in 1..Len(items) :
        LongItemComplete(n) =>
            /\ items[n].stop - items[n].start = 3 + LongDataSize(n)
            /\ items[n].it = LongItem
            /\ n < Len(items) => items[n + 1].start = items[n].stop

C15_Witness ==
    \E n \in 1..Len(items) :
        /\ LongItemComplete(n)
        /\ LongDataSize(n) = 3
        /\ n < Len(items)
        /\ items[n + 1].it.type = 1 /\ items[n + 1].it.tag = 0


\* the loop is about to tokenize an item whose prefix byte is 0xFE
AtLongPrefix == AtItem /\ Deref(bytes, p) = \hFE

\* C16: every item with prefix 0xFE is yielded as a Reserved item, also when
\* its header or its payload is cut off by the end of the descriptor, and
\* evaluating it leaves the local state, the global state, the global stack,
\* the collection stack, the tree and the index as they are.
C16_LongPrefixIsReserved ==
    [][AtLongPrefix => /\ it'.type = 3
                       /\ l' = l /\ g' = g /\ gstack' = gstack
                       /\ stack' = stack /\ current' = current
                       /\ nodes' = nodes /\ index' = index]_vars


\* data byte i (from 0) of item n as it stands in the descriptor, 0 where the
\* descriptor ends before it
DataByte(n, i) ==
    IF items[n].start + 1 + i < items[n].stop THEN bytes[items[n].start + 2 + i] ELSE 0

\* the data bytes of item n read as a two's-complement integer of the item's width
TwosComplement(n) ==
    LET lo == DataByte(n, 0) + 256 * DataByte(n, 1)
        hi == DataByte(n, 2) + 256 * DataByte(n, 3)
    IN  CASE items[n].it.size = 0 -> 0
          [] items[n].it.size = 1 ->
                IF DataByte(n, 0) >= 128 THEN DataByte(n, 0) - 256 ELSE DataByte(n, 0)
          [] items[n].it.size = 2 -> IF lo >= 32768 THEN lo - 65536 ELSE lo
          [] items[n].it.size = 4 ->
                IF DataByte(n, 3) >= 128 THEN (hi - 65536) * 65536 + lo
                                         ELSE hi * 65536 + lo

\* item n is a Global Logical/Physical Minimum/Maximum item
IsMinMax(n) == IsGlobal(n) /\ items[n].it.tag \in 1..4

MinMaxField(tag) ==
    CASE tag = 1 -> "logical_min" [] tag = 2 -> "logical_max"
      [] tag = 3 -> "physical_min" [] tag = 4 -> "physical_max"

\* C17: a Global item with tag 0x01..0x04 sets its field of the global state
\* to its data read as a two's-complement integer of the item's width (8, 16
\* or 32 bits; 0 for width 0), and no other field.
C17_MinMaxSignExtended ==
    \A n \in 1..Len(glog) :
        IsMinMax(n) =>
            glog[n].g = [GlobalBefore(n) EXCEPT
                            ![MinMaxField(items[n].it.tag)] = TwosComplement(n)]

C17_Witness ==
    \E n \in 1..Len(glog) :
        /\ IsMinMax(n) /\ items[n].it.tag = 1
        /\ items[n].it.size = 2
        /\ glog[n].g.logical_min = -128


\* the fields emitted under report id k, in order of emission
EmittedUnder(k) == SelectSeq(emitted, LAMBDA e : FieldAt(e).report_id = k)

\* C18: find_by_report_id always returns a vector: the empty one for an id no
\* Field was indexed under, the Fields emitted under the id otherwise; a query
\* adds no key to the index, whose keys stay the report ids of the Fields of
\* the tree, so that a repeated query returns what the first one did.
C18_FindNeverFailsNorInserts ==
    /\ DOMAIN index = {FieldAt(emitted[i]).report_id : i \in 1..Len(emitted)}
    /\ found # NoResult =>
          /\ pc \in {"returned", "rendered"}
          /\ found.id \in QueryIds
          /\ Len(found.result) = Len(EmittedUnder(found.id))
          /\ \A i \in 1..Len(found.result) :
                /\ found.result[i].node = EmittedUnder(found.id)[i].node
                /\ found.result[i].slot = EmittedUnder(found.id)[i].slot
          /\ found.id \notin DOMAIN index => found.result = <<>>

C18_Witness ==
    /\ found # NoResult
    /\ found.id = 255
    /\ found.result = <<>>
    /\ DOMAIN index = {0, 1}
    /\ pc = "rendered"


\* C19: a Field, once emitted, keeps every attribute it was emitted with,
\* whatever items, renderings and queries follow.
C19_EmittedFieldsFrozen ==
    [][\A i \in 1..Len(emitted) :
          nodes'[emitted[i].node].fields[emitted[i].slot] = FieldAt(emitted[i])]_vars

C19_Witness ==
    \E i, j \in 1..Len(emitted) :
        /\ i < j
        /\ emitted[i].node = emitted[j].node
        /\ FieldAt(emitted[i]).report_id # FieldAt(emitted[j]).report_id
        /\ \E n \in (emitted[i].item + 1)..(emitted[j].item - 1) : IsGlobal(n)


\* the width the prefix byte of item n declares
DeclaredSize(n) ==
    LET code == bytes[items[n].start + 1] % 4 IN IF code = 3 THEN 4 ELSE code

\* the data bytes of item n that the descriptor holds, least significant
\* first, with 0 for the bytes the descriptor ends before
LittleEndianData(n) ==
    <<DataByte(n, 2) + 256 * DataByte(n, 3), DataByte(n, 0) + 256 * DataByte(n, 1)>>

\* C20: a short item whose data is cut off by the end of the descriptor is
\* yielded with the width, type and tag of its prefix and with the data bytes
\* present, little-endian, zero above them; it is evaluated (an Input, Output
\* or Feature emits its Field, a Usage joins the local state, a Usage Page sets
\* the global state) and it is the last item; every collection, open or
\* closed, stays attached below the root.
C20_CutShortItemYielded ==
    \A n \in 1..Len(items) :
        IsCutShort(n) =>
            /\ n = Len(items) /\ items[n].stop = Len(bytes)
            /\ pc = "parse" => p >= Len(bytes)
            /\ items[n].it.size = DeclaredSize(n)
            /\ items[n].it.type = (bytes[items[n].start + 1] \div 4) % 4
            /\ items[n].it.tag = bytes[items[n].start + 1] \div 16
            /\ items[n].it.data = LittleEndianData(n)
            /\ (IsFieldItem(n) /\ Settled) =>
                  /\ emitted # <<>> /\ Last(emitted).item = n
                  /\ FieldAt(Last(emitted)).flags = LittleEndianData(n)[2] % 256
                  /\ Last(emitted).node = current
            /\ IsLocal(n, 0) =>
                  l.usages # <<>> /\ Last(l.usages) = LittleEndianData(n)
            /\ (IsGlobal(n) /\ items[n].it.tag = 0) =>
                  g.usage_page = LittleEndianData(n)[2]
            /\ {DfsNodes(1)[i] : i \in 1..Len(DfsNodes(1))} = 1..Len(nodes)
            /\ \A i \in 1..Len(stack) : stack[i] \in 1..Len(nodes)

C20_Witness ==
    /\ pc = "returned"
    /\ items # <<>>
    /\ IsCutShort(Len(items))
    /\ IsFieldItem(Len(items))
    /\ Last(items).it.size = 2
    /\ Last(items).it.data = <<0, 2>>
    /\ Len(stack) > 1
    /\ nodes[current].fields # <<>>


\* the number of collections the first i lines of the rendering leave open,
\* counted as the renderer counts them: never below 0
RECURSIVE RenderOpenAfter(_)
RenderOpenAfter(i) ==
    IF i = 0 THEN 0
    ELSE IF out[i].text = "Collection" THEN RenderOpenAfter(i - 1) + 1
    ELSE IF out[i].text = "End Collection" /\ RenderOpenAfter(i - 1) > 0
         THEN RenderOpenAfter(i - 1) - 1
    ELSE RenderOpenAfter(i - 1)

\* C21: the line of an End Collection item is indented by the depth after the
\* decrement (floor 0), that is, like the line of the Collection item it closes.
C21_EndCollectionIndent ==
    \A i \in 1..Len(out) :
        out[i].text = "End Collection" =>
            out[i].indent = (IF RenderOpenAfter(i - 1) > 0
                             THEN RenderOpenAfter(i - 1) - 1 ELSE 0)


\* C22: the finished rendering has one line per tokenized item, in stream
\* order, each listing the bytes of its item, so that the bytes listed
\* concatenate to the tokenized part of the descriptor; it ends with the
\* trailer giving the length of the descriptor, and for the empty descriptor
\* it is the trailer alone.
C22_OneLinePerItemAndTrailer ==
    pc = "rendered" =>
        /\ Len(out) = Len(items) + 1
        /\ \A i \in 1..Len(items) :
              /\ out[i].start = items[i].start /\ out[i].stop = items[i].stop
              /\ out[i].text = Describe(items[i].it)
              /\ out[i].raw = SubSeq(bytes, items[i].start + 1, items[i].stop)
        /\ Flatten([i \in 1..Len(items) |-> out[i].raw]) = SubSeq(bytes, 1, Covered)
        /\ Last(out).text = "bytes" /\ Last(out).count = Len(bytes)
        /\ bytes = <<>> => (Len(out) = 1 /\ out[1].count = 0)

C22_Witness ==
    /\ pc = "rendered"
    /\ Len(out) >= 4
    /\ \E i \in 1..Len(items) : Len(out[i].raw) >= 3
    /\ \E i \in 1..Len(items) : IsCutShort(i)


\* the numbers of the Collection items among the first n items, in stream order
CollectionItems(n) == SelectSeq([k \in 1..n |-> k], LAMBDA k : IsCollection(k))

\* the node created for Collection item n: nodes are numbered in creation
\* order, the root being node 1
NodeOf(n) == 1 + Len(CollectionItems(n))

\* the collection stack after the first n items, worked out from the stream
RECURSIVE StreamStack(_)
StreamStack(n) ==
    IF n = 0 THEN <<1>>
    ELSE LET before == StreamStack(n - 1)
         IN  IF IsCollection(n) THEN Append(before, NodeOf(n))
             ELSE IF IsEndCollection(n) /\ Len(before) > 1
                  THEN SubSeq(before, 1, Len(before) - 1)
             ELSE before

\* the children of node k are the nodes of the Collection items met while k
\* was on top of the stack, in stream order
ChildrenFromStream(k) ==
    LET sel == SelectSeq(CollectionItems(Len(items)),
                         LAMBDA n : Last(StreamStack(n - 1)) = k)
    IN  [i \in 1..Len(sel) |-> NodeOf(sel[i])]

\* C25: every Collection item creates one node, attached as the last child of
\* the collection on top of the stack at that moment, with type = data & 0xFF,
\* the global usage page of that moment and the last pending Usage (0 if none,
\* a pending range not counting); the node becomes the top of the stack, and
\* no node is ever removed or moved, so children are in stream order.
C25_CollectionCreatesNode ==
    /\ Len(nodes) = 1 + Len(CollectionItems(Len(items)))
    /\ stack = StreamStack(Len(items))
    /\ \A k \in 1..Len(nodes) : nodes[k].children = ChildrenFromStream(k)
    /\ \A n \in 1..Len(items) :
          IsCollection(n) =>
              /\ nodes[NodeOf(n)].type = items[n].it.data[2] % 256
              /\ nodes[NodeOf(n)].usage_page = GlobalBefore(n).usage_page
              /\ nodes[NodeOf(n)].usage =
                    (IF UsagesBefore(n) # <<>> THEN Last(UsagesBefore(n)) ELSE W0)
              /\ Last(StreamStack(n)) = NodeOf(n)

C25_Witness ==
    /\ pc = "returned"
    /\ \E n \in 1..Len(items) :
          /\ IsCollection(n)
          /\ Len(StreamStack(n - 1)) > 1
          /\ nodes[NodeOf(n)].usage # W0
          /\ nodes[NodeOf(n)].usage_page # 0
          /\ nodes[NodeOf(n)].type = 0


\* the numbers of the Input, Output and Feature items among the first n items
FieldItems(n) == SelectSeq([k \in 1..n |-> k], LAMBDA k : IsFieldItem(k))

\* the sum of the lengths of the sequences s[1], ..., s[n]
RECURSIVE SumLen(_, _)
SumLen(s, n) == IF n = 0 THEN 0 ELSE Len(s[n]) + SumLen(s, n - 1)

\* the number of Fields held by the nodes of the tree
FieldCount == SumLen([k \in 1..Len(nodes) |-> nodes[k].fields], Len(nodes))

\* all the references of the index, as a set of (key, position) pairs
IndexEntries == UNION {{<<k, i>> : i \in 1..Len(index[k])} : k \in DOMAIN index}

\* C26: every Input, Output or Feature item evaluated appends one Field, as
\* the last one, to the collection on top of the collection stack at that
\* moment and one reference to index[report_id]; every Field is held by one
\* node and referenced once, and the tree holds as many Fields as the index
\* holds references and as the stream holds Input, Output and Feature items.
C26_OneFieldPerFieldItem ==
    Settled =>
        LET fieldItems == FieldItems(Len(items))
            entries == IndexEntries
        IN  /\ Len(emitted) = Len(fieldItems)
            /\ FieldCount = Len(emitted)
            /\ Cardinality(entries) = Len(emitted)
            /\ \A i \in 1..Len(emitted) :
                  LET refs == {e \in entries :
                                 /\ index[e[1]][e[2]].node = emitted[i].node
                                 /\ index[e[1]][e[2]].slot = emitted[i].slot}
                  IN  /\ emitted[i].item = fieldItems[i]
                      /\ emitted[i].node = Last(StreamStack(emitted[i].item - 1))
                      /\ emitted[i].slot =
                            1 + Cardinality({j \in 1..(i - 1) :
                                               emitted[j].node = emitted[i].node})
                      /\ emitted[i].slot <= Len(nodes[emitted[i].node].fields)
                      /\ Cardinality(refs) = 1
                      /\ \A e \in refs : e[1] = FieldAt(emitted[i]).report_id

C26_Witness ==
    /\ pc = "returned"
    /\ \E i, j \in 1..Len(emitted) :
          /\ i < j
          /\ emitted[i].node # 1 /\ emitted[j].node = 1
          /\ \E n \in (emitted[i].item + 1)..(emitted[j].item - 1) : IsEndCollection(n)


\* the loop is about to evaluate a Global item
AtGlobal == AtItem /\ Fetch.it.type = 1

\* the data word of an item read as a signed integer of the item's width
SignedData(item) ==
    CASE item.size = 1 -> IF (item.data[2] % 256) >= 128 THEN (item.data[2] % 256) - 256
                                                         ELSE item.data[2] % 256
      [] item.size = 2 -> IF item.data[2] >= 32768 THEN item.data[2] - 65536
                                                   ELSE item.data[2]
      [] OTHER -> IF item.data[1] >= 32768
                  THEN (item.data[1] - 65536) * 65536 + item.data[2]
                  ELSE item.data[1] * 65536 + item.data[2]

\* the global state a Global item with a tag in 0x00 .. 0x09 leaves behind
GlobalAfter(gs, item) ==
    CASE item.tag = 0 -> [gs EXCEPT !.usage_page = item.data[2]]
      [] item.tag \in 1..4 -> [gs EXCEPT ![MinMaxField(item.tag)] = SignedData(item)]
      [] item.tag = 5 ->
            LET low == SignedData(item) % 256
            IN  [gs EXCEPT !.unit_exponent = IF low >= 128 THEN low - 256 ELSE low]
      [] item.tag = 6 -> [gs EXCEPT !.unit = item.data]
      [] item.tag = 7 -> [gs EXCEPT !.report_size_bits = item.data]
      [] item.tag = 8 -> [gs EXCEPT !.report_id = item.data[2] % 256]
      [] item.tag = 9 -> [gs EXCEPT !.report_count = item.data]

\* C27: a Global item with a tag in 0x00 .. 0x09 sets its one field of the
\* global state (masked, sign-extended or copied as its tag says) and leaves
\* the other nine and the global stack alone; a Global item with a tag above
\* 0x0B changes nothing; no Global item touches the local state, the
\* collection stack, the tree or the index.
C27_GlobalItemSetsOneField ==
    [][AtGlobal =>
          /\ l' = l /\ stack' = stack /\ current' = current
          /\ nodes' = nodes /\ index' = index
          /\ Fetch.it.tag \in 0..9 =>
                g' = GlobalAfter(g, Fetch.it) /\ gstack' = gstack
          /\ Fetch.it.tag > 11 => g' = g /\ gstack' = gstack]_vars

C27_Witness ==
    /\ items # <<>>
    /\ IsGlobal(Len(items))
    /\ Last(items).it.tag = 5 /\ Last(items).it.size = 2
    /\ g.unit_exponent = -128
    /\ pc = "parse"


\* C28: an item whose prefix is not 0xFE has size 4 for size code 3 and the
\* size code otherwise, type = bits 2-3 and tag = bits 4-7 of the prefix, and
\* as data the next size bytes, little-endian, zero-extended; when 1 + size
\* bytes are there, the cursor advances by exactly that many.
C28_ShortItemDecoding ==
    \A n \in 1..Len(items) :
        ~HasLongPrefix(n) =>
            /\ items[n].it.size = DeclaredSize(n)
            /\ items[n].it.type = (bytes[items[n].start + 1] \div 4) % 4
            /\ items[n].it.tag = (bytes[items[n].start + 1] \div 16) % 16
            /\ items[n].it.data = LittleEndianData(n)
            /\ items[n].start + 1 + DeclaredSize(n) <= Len(bytes) =>
                  items[n].stop = items[n].start + 1 + DeclaredSize(n)

C28_Witness ==
    \E n \in 1..Len(items) :
        /\ ~HasLongPrefix(n)
        /\ items[n].it.size = 4 /\ items[n].it.type = 2 /\ items[n].it.tag = 1
        /\ items[n].it.data = <<65535, 65534>>
        /\ items[n].stop = items[n].start + 5


\* the loop is about to evaluate a Local item
AtLocal == AtItem /\ Fetch.it.type = 2

\* C29: a Local item changes the local state only, and never clears it: Usage
\* appends its data to usages, Usage Minimum and Usage Maximum set the range
\* flag and their own bound and leave the other bound and usages alone, every
\* other Local tag leaves the local state as it is; the global state, the
\* global stack, the collection stack, the tree and the index stay unchanged.
C29_LocalItemChangesLocalOnly ==
    [][AtLocal =>
          /\ g' = g /\ gstack' = gstack
          /\ stack' = stack /\ current' = current
          /\ nodes' = nodes /\ index' = index
          /\ Fetch.it.tag = 0 =>
                l' = [l EXCEPT !.usages = l.usages \o <<Fetch.it.data>>]
          /\ Fetch.it.tag = 1 =>
                l' = [l EXCEPT !.has_usage_minmax = TRUE, !.usage_min = Fetch.it.data]
          /\ Fetch.it.tag = 2 =>
                l' = [l EXCEPT !.has_usage_minmax = TRUE, !.usage_max = Fetch.it.data]
          /\ Fetch.it.tag \notin {0, 1, 2} => l' = l]_vars

C29_Witness ==
    /\ items # <<>>
    /\ Last(items).it.type = 2 /\ Last(items).it.tag = 7
    /\ l.usages # <<>>
    /\ l.has_usage_minmax
    /\ pc = "parse"


\* the loop is about to evaluate a Global Push or Pop item
AtPushOrPop == AtGlobal /\ Fetch.it.tag \in {\h0A, \h0B}

\* the loop is about to evaluate a Main Collection or End Collection item
AtCollectionOrEnd == AtItem /\ Fetch.it.type = 0 /\ Fetch.it.tag \in {\h0A, \h0C}

\* C30: Push and Pop leave the collection stack, the current collection, the
\* tree and the index alone; Collection and End Collection leave the global
\* state and the global stack alone; so a Pop restores the newest saved state
\* whatever collections were opened or closed since its Push.
C30_StacksIndependent ==
    [][/\ AtPushOrPop =>
             /\ stack' = stack /\ current' = current
             /\ nodes' = nodes /\ index' = index
       /\ AtCollectionOrEnd => g' = g /\ gstack' = gstack
       /\ (AtPushOrPop /\ Fetch.it.tag = \h0B /\ gstack # <<>>) =>
             /\ g' = Last(gstack)
             /\ gstack' = SubSeq(gstack, 1, Len(gstack) - 1)
       /\ (AtPushOrPop /\ Fetch.it.tag = \h0A) =>
             g' = g /\ gstack' = Append(gstack, g)]_vars

C30_Witness ==
    /\ items # <<>>
    /\ IsPop(Len(items))
    /\ DepthBefore(Len(items)) = 1
    /\ Len(stack) = 1
    /\ \E m \in 1..Len(items) : \E e \in 1..Len(items) :
          /\ m < e
          /\ IsPush(m) /\ Len(StreamStack(m)) > 1
          /\ IsEndCollection(e) /\ Len(StreamStack(e)) = 1


\* the system call that call i of the history of member functions issued
OsCallOf(i) == oscalls[ops[i].first + 1]

\* C23: feature_get throws without a system call when the device is not open
\* ("Device not opened", checked first) or the buffer is empty; with the ioctl
\* failing it throws a std::system_error carrying errno; with the ioctl
\* reporting another count than the buffer length it throws "Incomplete
\* feature report read"; it returns only when the count is the buffer length.
C23_FeatureGetOutcome ==
    \A i \in 1..Len(ops) :
        ops[i].op = "feature_get" =>
            /\ ops[i].fd = -1 =>
                  /\ ops[i].end = Threw("runtime_error", "Device not opened")
                  /\ ops[i].ncalls = 0
            /\ (ops[i].fd # -1 /\ ops[i].len = 0) =>
                  /\ ops[i].end = Threw("invalid_argument", "Data buffer is empty")
                  /\ ops[i].ncalls = 0
            /\ (ops[i].fd # -1 /\ ops[i].len > 0) =>
                  /\ ops[i].ncalls = 1
                  /\ OsCallOf(i).call = "HIDIOCGFEATURE"
                  /\ OsCallOf(i).fd = ops[i].fd /\ OsCallOf(i).len = ops[i].len
                  /\ OsCallOf(i).ret < 0 =>
                        /\ ops[i].end.type = "system_error"
                        /\ ops[i].end.code = OsCallOf(i).err
                  /\ (OsCallOf(i).ret >= 0 /\ OsCallOf(i).ret # ops[i].len) =>
                        ops[i].end = Threw("runtime_error", "Incomplete feature report read")
                  /\ OsCallOf(i).ret = ops[i].len => ops[i].end = Returned
            /\ ops[i].end = Returned =>
                  ops[i].ncalls = 1 /\ OsCallOf(i).ret = ops[i].len

C23_Witness ==
    \E i, j, k \in 1..Len(ops) :
        /\ ops[i].op = "feature_get" /\ ops[i].fd = -1 /\ ops[i].len = 0
        /\ ops[j].op = "feature_get" /\ ops[j].end.type = "system_error"
        /\ ops[k].op = "feature_get" /\ ops[k].ncalls = 1
        /\ OsCallOf(k).ret = 1 /\ ops[k].len = 2


-----------------------------------------------------------------------------
(* C24 *)

\* the report-ID texts among ReportIdArgs that denote a number from 0 to 255
\* in decimal, or in hexadecimal after 0x or 0X
ValidReportIds == {<<"0">>, <<"7">>, <<"2", "5", "5">>, <<"0", "x", "F", "f">>}

\* the command takes a report ID as argv[3]; it takes a file as argv[4]
TakesReportId(c) == c \in {"send", "recv", "feature-get", "feature-set"}
TakesFile(c) == c \in {"send", "feature-set"}

\* the arguments after the device path are missing or bad for the command
BadArguments(a) ==
    /\ TakesReportId(a.command)
    /\ \/ a.arg3.null
       \/ TakesFile(a.command) /\ a.arg4.null
       \/ a.arg3.chars \notin ValidReportIds

\* the run is a usage error, and the usage block that belongs to it
UsageErrorBlock(a) ==
    IF a.argc < 2 \/ a.command \notin Commands THEN "full"
    ELSE IF a.argc < 3 \/ BadArguments(a) THEN a.command
    ELSE "none"

\* the lines of the given kind that were printed
LinesOfKind(k) == {i \in 1..Len(stdout) : stdout[i].kind = k}

\* the selected command completed without error
CommandCompleted == env # <<>> /\ env[Len(env)] = "handler returned"

-----------------------------------------------------------------------------
(* C32 *)

\* the item line i of the rendering was written for
LineItem(i) == out[i].item

\* the lines written for items (the trailer, the last line of a finished
\* rendering, is not one)
NumItemLines == IF pc = "rendered" THEN Len(out) - 1 ELSE Len(out)
ItemLines == 1..NumItemLines

\* line i is a Global Usage Page item, a Local Usage item, a Global Pop item
IsUsagePageLine(i) == LineItem(i).type = 1 /\ LineItem(i).tag = 0
IsUsageLine(i) == LineItem(i).type = 2 /\ LineItem(i).tag = 0
IsPopLine(i) == LineItem(i).type = 1 /\ LineItem(i).tag = 11

\* the low 16 bits of the data of the last Usage Page item before line i, 0
\* if there is none
RECURSIVE PageBefore(_)
PageBefore(i) ==
    IF i <= 1 THEN 0
    ELSE IF IsUsagePageLine(i - 1) THEN LineItem(i - 1).data[2]
    ELSE PageBefore(i - 1)

\* C32: the renderer names every Local Usage item with the data, cut to 16
\* bits, of the most recent Global Usage Page item before it in the bytes
\* (page 0 if there is none); Push and Pop items, like every item other than
\* a Usage Page, leave the renderer's page as it is.
C32_RendererPage ==
    pc \in {"to_string", "rendered"} =>
       /\ \A i \in ItemLines : ~IsUsagePageLine(i) => out[i].page = PageBefore(i)
       /\ rpage = PageBefore(NumItemLines + 1)

\* a Usage item rendered after a Pop with the page 0x1234 of the four-byte
\* Usage Page item, while the parser is back at page 0 and stores page 0 in
\* the Field that follows
C32_Witness ==
    /\ pc = "rendered"
    /\ \E i \in ItemLines :
          /\ IsUsageLine(i)
          /\ i > 1 /\ IsPopLine(i - 1)
          /\ out[i].page = 4660
          /\ glog[i].g.usage_page = 0
    /\ \E n \in 1..Len(nodes) : \E k \in 1..Len(nodes[n].fields) :
          nodes[n].fields[k].usage_page = 0


-----------------------------------------------------------------------------
(* C33 *)

\* the parser's number of open collections after its item number n
ParserOpenAfter(n) == IF n = 0 THEN 0 ELSE glog[n].open

\* C33: while and after the rendering, the renderer's depth before each line
\* and after the last line written equals the number of collections the
\* parser had open at the same item (its stack size minus one), and it is
\* never negative.
C33_RendererDepthIsParserDepth ==
    pc \in {"to_string", "rendered"} =>
       /\ depth >= 0
       /\ NumItemLines <= Len(glog)
       /\ \A i \in ItemLines : out[i].indent = ParserOpenAfter(i - 1)
       /\ depth = ParserOpenAfter(NumItemLines)
       /\ pc = "rendered" => NumItemLines = Len(glog) /\ depth = Len(stack) - 1

\* an End Collection with nothing open, then a Collection, rendered to the
\* end: both passes end with one collection open
C33_Witness ==
    /\ pc = "rendered"
    /\ NumItemLines >= 2
    /\ LineItem(1).type = 0 /\ LineItem(1).tag = 12
    /\ \E i \in ItemLines : LineItem(i).type = 0 /\ LineItem(i).tag = 10
    /\ depth = 1
    /\ Len(stack) = 2


-----------------------------------------------------------------------------
(* C34 *)

\* the fd of the device of call number i when the call has ended
FdAfter(i) ==
    LET later == {j \in (i + 1)..Len(ops) : ops[j].dev = ops[i].dev}
    IN  IF later = {} THEN fd[ops[i].dev]
        ELSE ops[CHOOSE j \in later : \A k \in later : j <= k].fd

\* the system calls issued by call number i
CallsOf(i) == {j \in (ops[i].first + 1)..(ops[i].first + ops[i].ncalls) : TRUE}

\* C34: open on an open device throws "Device already opened", issues no
\* system call and leaves the handle in place; an open that fails leaves the
\* device not valid; close on a device that is not open does nothing, close
\* on an open device closes its handle and leaves it not valid; every query
\* and feature_get on a device that is not open throws "Device not opened"
\* before any system call.
C34_HandleLifeCycle ==
    \A i \in 1..Len(ops) :
       LET o == ops[i]
       IN  /\ o.op = "open" /\ o.fd # -1 =>
                /\ o.end = Threw("runtime_error", "Device already opened")
                /\ o.ncalls = 0
                /\ FdAfter(i) = o.fd
           /\ o.op = "open" /\ o.fd = -1 =>
                /\ o.ncalls = 1
                /\ oscalls[o.first + 1].call = "open"
                /\ IF oscalls[o.first + 1].ret < 0
                   THEN o.end.type = "system_error" /\ FdAfter(i) = -1
                   ELSE o.end = Returned /\ FdAfter(i) = oscalls[o.first + 1].ret
           /\ o.op = "close" =>
                /\ o.end = Returned
                /\ FdAfter(i) = -1
                /\ IF o.fd = -1 THEN o.ncalls = 0
                   ELSE /\ o.ncalls = 1
                        /\ oscalls[o.first + 1].call = "close"
                        /\ oscalls[o.first + 1].fd = o.fd
           /\ o.op \in Queries \cup {"feature_get"} =>
                /\ FdAfter(i) = o.fd
                /\ o.fd = -1 =>
                      /\ o.end = Threw("runtime_error", "Device not opened")
                      /\ o.ncalls = 0
                /\ o.fd # -1 /\ o.op \in Queries =>
                      \A j \in CallsOf(i) : oscalls[j].fd = o.fd

\* report_desc on a fresh device, a successful open, a second open, a close
C34_Witness ==
    /\ Len(ops) = 4
    /\ ops[1].op = "report_desc" /\ ops[1].fd = -1
    /\ ops[2].op = "open" /\ ops[2].end = Returned
    /\ ops[3].op = "open" /\ ops[3].fd >= 0
    /\ ops[4].op = "close"
    /\ fd["dev"] = -1


-----------------------------------------------------------------------------
(* C35 *)

\* the handles successful opens have returned, the live objects that hold
\* handle h, and the close calls issued on h
HandlesOpened == {oscalls[i].ret : i \in {j \in 1..Len(oscalls) :
                                             oscalls[j].call = "open" /\ oscalls[j].ret >= 0}}
Holders(h) == {d \in live : fd[d] = h}
ClosesOf(h) == {i \in 1..Len(oscalls) : oscalls[i].call = "close" /\ oscalls[i].fd = h}

\* the operations that move from a second object
MoveOps == {"device(device&&)", "operator="}

-----------------------------------------------------------------------------
(* C31 *)

\* the Feature fields the tree indexes under the report ID asked for
FeatureFieldsAsked ==
    LET id == report_id_value(args.arg3.chars)
    IN  IF id \in DOMAIN index
        THEN {i \in 1..Len(index[id]) : FieldAt(index[id][i]).kind = "feature"}
        ELSE {}

\* ceil(report_size_bits * report_count / 8) as a number, for a size and a
\* count of at most 2^16
CeilBytes(fld) ==
    LET size == I32(fld.report_size_bits)
        count == I32(fld.report_count)
    IN  (size \div 8) * count + (((size % 8) * count + 7) \div 8)

\* the sum of CeilBytes over the first n fields indexed under the report ID
RECURSIVE FeatureBytesUpTo(_)
FeatureBytesUpTo(n) ==
    IF n = 0 THEN 0
    ELSE FeatureBytesUpTo(n - 1) +
         (IF n \in FeatureFieldsAsked
          THEN CeilBytes(FieldAt(index[report_id_value(args.arg3.chars)][n])) ELSE 0)
FeatureBytesAsked ==
    LET id == report_id_value(args.arg3.chars)
    IN  IF id \in DOMAIN index THEN FeatureBytesUpTo(Len(index[id])) ELSE 0

\* the feature-report calls made to the device
FeatureCalls == {i \in 1..Len(oscalls) : oscalls[i].call = "HIDIOCGFEATURE"}

\* feature_get of main has run to its end
FeatureGetOver == found # NoResult /\ cpc = "exited"

\* C31: when the tree has no Feature field under the report ID, or its
\* Feature fields total zero bytes, feature-get ends with an error and makes
\* no feature-report call; otherwise it makes one call with a buffer of 1 +
\* the sum of ceil(report_size_bits * report_count / 8) over the Feature
\* fields under that report ID, byte 0 being the report ID.
C31_FeatureGetRequest ==
    FeatureGetOver =>
       IF FeatureBytesAsked = 0
       THEN FeatureCalls = {} /\ exit = 1
       ELSE /\ Cardinality(FeatureCalls) = 1
            /\ \A i \in FeatureCalls :
                  /\ oscalls[i].len = 1 + FeatureBytesAsked
                  /\ oscalls[i].byte0 = report_id_value(args.arg3.chars)

=============================================================================
